---------------------------- MODULE Spec2Model ----------------------------
(***************************************************************************)
(* A model of baserow's field type engine                                  *)
(* (backend/src/baserow/contrib/database/fields/field_types.py) and of     *)
(* the invitations and settings of its core handler (core/handler.py).     *)
(*                                                                         *)
(* The components share no state and are checked each under its own        *)
(* specification:                                                          *)
(*   SpecLink    link-row fields: the create / update / delete protocol    *)
(*               and the hooks of LinkRowFieldType;                        *)
(*   SpecNumber  one number field and its rows: row writes and updates of  *)
(*               the field's configuration;                                *)
(*   SpecSelect  one field that is converted between single-select and     *)
(*               text, its select options and its rows;                    *)
(*   SpecSelectOptions  the same field, its options and conversions only;  *)
(*   SpecConv    one column converted between text, date, url and email;   *)
(*   SpecPrep    prepare_value_for_db of the field types;                  *)
(*   SpecBoot    DatabaseConfig.ready and the model registry (config.py);  *)
(*   SpecSort    SingleSelectFieldType.get_order over a field's options;   *)
(*   SpecInvitation  group invitations of CoreHandler (core/handler.py);   *)
(*   SpecGeneration  model generation over tables joined by link-row       *)
(*               fields (after_model_generation);                          *)
(*   SpecCreation  creation and deletion of single-select fields with      *)
(*               their option payload;                                     *)
(*   SpecSettings  get_settings and update_settings of CoreHandler,        *)
(*               called by several requests at once.                       *)
(* Spec is their composition.                                              *)
(*                                                                         *)
(* FieldHandler (fields/handler.py), the models and the lenient schema     *)
(* editor are not part of the sources at hand: the definitions named       *)
(* Handler..., Model... and SchemaEditor... follow the lifecycle of        *)
(* section 4.5 and the bridge of section 4.4 of the specification.         *)
(***************************************************************************)
EXTENDS Integers, Sequences, FiniteSets, TLC

VARIABLES
    fields,         \* link component: field id -> Field row
    nextFieldId,    \* link component: the id the next created Field gets
    linkLast,       \* link component: the last operation and its outcome
    numField,       \* number component: the NumberField's configuration
    numRows,        \* number component: row id -> stored value
    numLast,        \* number component: the last operation, with the rows before it
    selType,        \* select component: the field's current type
    selOptions,     \* select component: option id -> value text
    selRows,        \* select component: row id -> stored value
    nextOptionId,   \* select component: the id the next SelectOption gets
    selLast,        \* select component: the last operation, with the state before it
    convField,      \* conversion component: the field's type and configuration
    convRows,       \* conversion component: row id -> stored value
    convLast,       \* conversion component: the last operation and the field before it
    prepField,      \* coercion component: the field a value is prepared for
    prepValue,      \* coercion component: the value handed to prepare_value_for_db
    prepResult,     \* coercion component: what prepare_value_for_db gave
    prepLast,       \* coercion component: the last operation
    registry,       \* startup component: the type names in field_type_registry
    registerError,  \* startup component: the error a register call raised
    readyPc,        \* startup component: the steps of ready() that are done
    registerModelPatched, \* startup component: apps.register_model is the patched one
    appModels,      \* startup component: the models in the application registry
    genPc,          \* startup component: caller -> where it is in generating a model
    bootLast,       \* startup component: the last operation
    sortOptions,    \* sort component: option id -> value text
    sortNextId,     \* sort component: the id the next SelectOption gets
    sortLast,       \* sort component: the last operation and the When clauses it built
    invGroupUsers,  \* invitation component: <<user, group>> -> GroupUser row
    invitations,    \* invitation component: invitation id -> GroupInvitation row
    invNextId,      \* invitation component: the id the next GroupInvitation gets
    invOutbox,      \* invitation component: the invitation emails sent
    invLast,        \* invitation component: the last operation and its outcome
    mgGraph,        \* generation component: the links between the tables
    mgStack,        \* generation component: the get_model calls in progress
    mgModels,       \* generation component: the tables in manytomany_models
    mgCount,        \* generation component: table -> models generated in the last call
    scFields,       \* select creation component: the ids of the single-select Field rows
    scOptions,      \* select creation component: option id -> SelectOption row
    scNextFieldId,  \* select creation component: the id the next Field gets
    scNextOptionId, \* select creation component: the id the next SelectOption gets
    scLast,         \* select creation component: the last operation and its writes
    settingsRows,   \* settings component: Settings id -> row
    settingsNextId, \* settings component: the id the next Settings row gets
    setCalls,       \* settings component: caller -> its call and position in it
    setReturned     \* settings component: ids returned by get_settings calls

linkVars == <<fields, nextFieldId, linkLast>>
numVars == <<numField, numRows, numLast>>
selVars == <<selType, selOptions, selRows, nextOptionId, selLast>>
convVars == <<convField, convRows, convLast>>
prepVars == <<prepField, prepValue, prepResult, prepLast>>
bootVars == <<registry, registerError, readyPc, registerModelPatched, appModels,
              genPc, bootLast>>
sortVars == <<sortOptions, sortNextId, sortLast>>
invVars == <<invGroupUsers, invitations, invNextId, invOutbox, invLast>>
mgVars == <<mgGraph, mgStack, mgModels, mgCount>>
scVars == <<scFields, scOptions, scNextFieldId, scNextOptionId, scLast>>
setVars == <<settingsRows, settingsNextId, setCalls, setReturned>>
vars == <<fields, nextFieldId, linkLast, numField, numRows, numLast,
          selType, selOptions, selRows, nextOptionId, selLast,
          convField, convRows, convLast,
          prepField, prepValue, prepResult, prepLast,
          registry, registerError, readyPc, registerModelPatched, appModels,
          genPc, bootLast,
          sortOptions, sortNextId, sortLast,
          invGroupUsers, invitations, invNextId, invOutbox, invLast,
          mgGraph, mgStack, mgModels, mgCount,
          scFields, scOptions, scNextFieldId, scNextOptionId, scLast,
          settingsRows, settingsNextId, setCalls, setReturned>>

\* What an operation on one component leaves alone.
outsideLink == <<numVars, selVars, convVars, prepVars, bootVars, sortVars, invVars, mgVars, scVars, setVars>>
outsideNumber == <<linkVars, selVars, convVars, prepVars, bootVars, sortVars, invVars, mgVars, scVars, setVars>>
outsideSelect == <<linkVars, numVars, convVars, prepVars, bootVars, sortVars, invVars, mgVars, scVars, setVars>>
outsideConv == <<linkVars, numVars, selVars, prepVars, bootVars, sortVars, invVars, mgVars, scVars, setVars>>
outsidePrep == <<linkVars, numVars, selVars, convVars, bootVars, sortVars, invVars, mgVars, scVars, setVars>>
outsideBoot == <<linkVars, numVars, selVars, convVars, prepVars, sortVars, invVars, mgVars, scVars, setVars>>
outsideSort == <<linkVars, numVars, selVars, convVars, prepVars, bootVars, invVars, mgVars, scVars, setVars>>
outsideInvitation == <<linkVars, numVars, selVars, convVars, prepVars, bootVars, sortVars, mgVars, scVars, setVars>>
outsideGeneration == <<linkVars, numVars, selVars, convVars, prepVars, bootVars, sortVars, invVars, scVars, setVars>>
outsideCreation == <<linkVars, numVars, selVars, convVars, prepVars, bootVars, sortVars, invVars, mgVars, setVars>>
outsideSettings == <<linkVars, numVars, selVars, convVars, prepVars, bootVars, sortVars, invVars, mgVars, scVars>>

\* Python's None: an absent table, field or relation id.
None == 0

Max(S) == CHOOSE x \in S : \A y \in S : y <= x

(***************************************************************************)
(*                         LINK-ROW COMPONENT                              *)
(***************************************************************************)

\* Bounds of the link component.
NumTables == 3
MaxFieldId == 2
MaxOrder == 2

Tables == 1..NumTables

\* table.database_id: the last table lives in database 2, the others in database 1.
TableDatabase(t) == IF t = NumTables THEN 2 ELSE 1

\* table.name
TableName(t) == "table_" \o ToString(t)

\* The name a user gives a field.
UserFieldName == "field"

\* A Field row of type text.
TextFieldRow(table, name, order) ==
    [table |-> table, type |-> "text", name |-> name, order |-> order,
     link_row_table |-> None, link_row_related_field |-> None,
     link_row_relation_id |-> None]

\* Field.get_last_order(table): one more than the highest order in the table.
GetLastOrder(fs, table) ==
    LET orders == {fs[i].order : i \in {j \in DOMAIN fs : fs[j].table = table}}
    IN  IF orders = {} THEN 1 ELSE Max(orders) + 1

\* LinkRowField.save(): a link-row field without a relation id gets a new one.
NewRelationId(fs) ==
    LET ids == {fs[i].link_row_relation_id : i \in DOMAIN fs}
    IN  Max(ids \cup {0}) + 1

\* Model.delete() of a Field row: the row goes, and link_row_related_field
\* (on_delete SET_NULL) of every row that referenced it becomes None.
ModelDelete(fs, id) ==
    [i \in DOMAIN fs \ {id} |->
        IF fs[i].link_row_related_field = id
        THEN [fs[i] EXCEPT !.link_row_related_field = None]
        ELSE fs[i]]

\* The values a caller passes: link_row_table may be missing (has = FALSE),
\* None, or a table; link_row_related_field and link_row_relation_id are
\* read-only for API callers and set only by the nested creation.
Values(has, table, name, related, relation) ==
    [has |-> has, link_row_table |-> table, name |-> name,
     link_row_related_field |-> related, link_row_relation_id |-> relation]

UserValues ==
    {Values(FALSE, None, UserFieldName, None, None)} \cup
    {Values(TRUE, t, UserFieldName, None, None) : t \in Tables \cup {None}}

\* The state an operation works on: the Field rows, the next id, the error
\* raised so far ("ok": none) and the number of create_field calls made.
Fail(st, error) == [st EXCEPT !.error = error]

\* before_create without the comparison of the database ids.
LinkRowBeforeCreate_NoDatabaseCheck(table, values) ==
    IF ~values.has \/ values.link_row_table = None
    THEN "LinkRowTableNotProvided"
    ELSE "ok"

\* before_create that only looks whether the key is there: a link_row_table
\* of None then fails on its database_id.
LinkRowBeforeCreate_KeyOnly(table, values) ==
    IF ~values.has
    THEN "LinkRowTableNotProvided"
    ELSE IF values.link_row_table = None
    THEN "InternalError"
    ELSE IF TableDatabase(table) # TableDatabase(values.link_row_table)
    THEN "LinkRowTableNotInSameDatabase"
    ELSE "ok"

\* LinkRowFieldType.before_create: the error raised, or "ok".
LinkRowBeforeCreate(table, values) ==
    IF ~values.has \/ values.link_row_table = None
    THEN "LinkRowTableNotProvided"
    ELSE IF TableDatabase(table) # TableDatabase(values.link_row_table)
    THEN "LinkRowTableNotInSameDatabase"
    ELSE "ok"

\* before_update without the comparison of the database ids.
LinkRowBeforeUpdate_NoDatabaseCheck(from_field, to_field_values) == "ok"

\* LinkRowFieldType.before_update: the error raised, or "ok".
LinkRowBeforeUpdate(from_field, to_field_values) ==
    IF ~to_field_values.has \/ to_field_values.link_row_table = None
    THEN "ok"
    ELSE IF TableDatabase(from_field.table)
                # TableDatabase(to_field_values.link_row_table)
    THEN "LinkRowTableNotInSameDatabase"
    ELSE "ok"

RECURSIVE HandlerCreateField(_, _, _, _)

\* after_create that creates the related field and forgets to store it on
\* the field.
LinkRowAfterCreate_NoSave(st, id) ==
    LET field == st.fields[id] IN
    IF field.link_row_related_field # None
    THEN st
    ELSE HandlerCreateField(st, field.link_row_table, "link_row",
                            Values(TRUE, field.table, TableName(field.table), id,
                                   field.link_row_relation_id))

\* after_create with the test of the early return the other way round.
LinkRowAfterCreate_ReturnsWhenUnset(st, id) ==
    LET field == st.fields[id] IN
    IF field.link_row_related_field = None
    THEN st
    ELSE HandlerCreateField(st, field.link_row_table, "link_row",
                            Values(TRUE, field.table, TableName(field.table), id,
                                   field.link_row_relation_id))

\* after_create that does not hand its relation id to the related field.
LinkRowAfterCreate_OwnRelationId(st, id) ==
    LET field == st.fields[id] IN
    IF field.link_row_related_field # None
    THEN st
    ELSE LET r == HandlerCreateField(st, field.link_row_table, "link_row",
                      Values(TRUE, field.table, TableName(field.table), id, None))
         IN  IF r.error # "ok"
             THEN r
             ELSE [r EXCEPT !.fields[id].link_row_related_field = r.created]

\* LinkRowFieldType.after_create: creates the related field in the related
\* table unless the field already has one.
LinkRowAfterCreate(st, id) ==
    LET field == st.fields[id] IN
    IF field.link_row_related_field # None
    THEN st
    ELSE LET r == HandlerCreateField(st, field.link_row_table, "link_row",
                      Values(TRUE, field.table, TableName(field.table), id,
                             field.link_row_relation_id))
         IN  IF r.error # "ok"
             THEN r
             ELSE [r EXCEPT !.fields[id].link_row_related_field = r.created]

\* FieldHandler.create_field: before_create, the Field row, after_create.
HandlerCreateField(st, table, type_name, values) ==
    IF table = None
    THEN Fail(st, "InternalError")
    ELSE
    LET before == IF type_name = "link_row"
                  THEN LinkRowBeforeCreate(table, values)
                  ELSE "ok"
        id == st.nextId
        order == GetLastOrder(st.fields, table)
        row == IF type_name = "link_row"
               THEN [table |-> table, type |-> "link_row", name |-> values.name,
                     order |-> order,
                     link_row_table |-> values.link_row_table,
                     link_row_related_field |-> values.link_row_related_field,
                     link_row_relation_id |->
                        IF values.link_row_relation_id = None
                        THEN NewRelationId(st.fields)
                        ELSE values.link_row_relation_id]
               ELSE TextFieldRow(table, values.name, order)
        st1 == [fields |-> (id :> row) @@ st.fields, nextId |-> id + 1,
                error |-> "ok", calls |-> st.calls + 1, created |-> id]
    IN  IF before # "ok"
        THEN Fail([st EXCEPT !.calls = @ + 1], before)
        ELSE IF type_name = "link_row"
        THEN LET r == LinkRowAfterCreate(st1, id)
             IN  [r EXCEPT !.created = id]
        ELSE st1

\* before_schema_change that leaves the related field alone.
LinkRowBeforeSchemaChange_Noop(st, from_field, to_field) == st

\* LinkRowFieldType.before_schema_change: called for the old (link-row) field
\* before the column is altered.
LinkRowBeforeSchemaChange(st, from_field, to_field) ==
    LET related == from_field.link_row_related_field IN
    IF to_field.type # "link_row"
    THEN IF related \notin DOMAIN st.fields
         THEN Fail(st, "InternalError")
         ELSE [st EXCEPT !.fields = ModelDelete(st.fields, related)]
    ELSE IF to_field.link_row_table = None
    THEN Fail(st, "InternalError")
    ELSE IF to_field.link_row_table # from_field.link_row_table
    THEN IF related \notin DOMAIN st.fields
         THEN Fail(st, "InternalError")
         ELSE [st EXCEPT !.fields[related] =
                  [@ EXCEPT !.name = TableName(to_field.table),
                            !.table = to_field.link_row_table,
                            !.link_row_table = to_field.table,
                            !.order = GetLastOrder(st.fields,
                                                   to_field.link_row_table)]]
    ELSE st

\* LinkRowFieldType.after_update: a field that was not a link-row field and
\* now is one gets its related field.
LinkRowAfterUpdate(st, from_field, id) ==
    LET to_field == st.fields[id] IN
    IF from_field.type # "link_row" /\ to_field.type = "link_row"
    THEN LET r == HandlerCreateField(st, to_field.link_row_table, "link_row",
                      Values(TRUE, to_field.table, TableName(to_field.table), id,
                             to_field.link_row_relation_id))
         IN  IF r.error # "ok"
             THEN r
             ELSE [r EXCEPT !.fields[id].link_row_related_field = r.created]
    ELSE st

\* after_delete that leaves the related field alone.
LinkRowAfterDelete_Noop(st, field) == st

\* LinkRowFieldType.after_delete: deletes the related field.
LinkRowAfterDelete(st, field) ==
    IF field.link_row_related_field \notin DOMAIN st.fields
    THEN Fail(st, "InternalError")
    ELSE [st EXCEPT !.fields = ModelDelete(st.fields, field.link_row_related_field)]

\* FieldHandler.update_field: before_update of the new type, the Field row,
\* before_schema_change of the old type, after_update of the new type.
HandlerUpdateField(st, id, new_type_name, values) ==
    LET old_field == st.fields[id]
        before == IF new_type_name = "link_row"
                  THEN LinkRowBeforeUpdate(old_field, values)
                  ELSE "ok"
        to_field ==
            IF new_type_name = "link_row"
            THEN [old_field EXCEPT
                    !.type = "link_row",
                    !.link_row_table =
                        IF values.has THEN values.link_row_table ELSE @,
                    !.link_row_relation_id =
                        IF @ = None THEN NewRelationId(st.fields) ELSE @]
            ELSE TextFieldRow(old_field.table, old_field.name, old_field.order)
        st1 == [st EXCEPT !.fields[id] = to_field]
        st2 == IF old_field.type = "link_row"
               THEN LinkRowBeforeSchemaChange(st1, old_field, to_field)
               ELSE st1
    IN  IF before # "ok"
        THEN Fail(st, before)
        ELSE IF st2.error # "ok"
        THEN st2
        ELSE IF new_type_name = "link_row"
        THEN LinkRowAfterUpdate(st2, old_field, id)
        ELSE st2

\* FieldHandler.delete_field: the Field row is deleted, then after_delete of
\* its type runs on the deleted instance.
HandlerDeleteField(st, id) ==
    LET field == st.fields[id]
        st1 == [st EXCEPT !.fields = ModelDelete(st.fields, id)]
    IN  IF field.type = "link_row"
        THEN LinkRowAfterDelete(st1, field)
        ELSE st1

\* The state handed to an operation.
LinkState == [fields |-> fields, nextId |-> nextFieldId, error |-> "ok",
              calls |-> 0, created |-> None]

\* Within the bounds: ids and orders stay small.
WithinLinkBounds(st) ==
    /\ st.nextId <= MaxFieldId + 1
    /\ \A i \in DOMAIN st.fields : st.fields[i].order <= MaxOrder

\* The type and the linked table the field of an operation had before it.
FieldBefore(id) ==
    IF id \in DOMAIN fields
    THEN [type |-> fields[id].type, link_row_table |-> fields[id].link_row_table]
    ELSE [type |-> "none", link_row_table |-> None]

\* An operation without a transaction: what it wrote before it raised stays.
Commit_KeepsWrites(st, op, id, type_name) ==
    /\ WithinLinkBounds(st)
    /\ fields' = st.fields
    /\ nextFieldId' = st.nextId
    /\ linkLast' = [op |-> op, field |-> id, type |-> type_name,
                    error |-> st.error, calls |-> st.calls,
                    from |-> FieldBefore(id)]

\* An operation is one transaction: when it raised, nothing it did remains.
Commit(st, op, id, type_name) ==
    /\ WithinLinkBounds(st)
    /\ fields' = IF st.error = "ok" THEN st.fields ELSE fields
    /\ nextFieldId' = IF st.error = "ok" THEN st.nextId ELSE nextFieldId
    /\ linkLast' = [op |-> op, field |-> id, type |-> type_name,
                    error |-> st.error, calls |-> st.calls,
                    from |-> FieldBefore(id)]

CreateField(table, type_name, values) ==
    /\ Commit(HandlerCreateField(LinkState, table, type_name, values),
              "create", nextFieldId, type_name)
    /\ UNCHANGED outsideLink

UpdateField(id, new_type_name, values) ==
    /\ id \in DOMAIN fields
    /\ Commit(HandlerUpdateField(LinkState, id, new_type_name, values),
              "update", id, new_type_name)
    /\ UNCHANGED outsideLink

DeleteField(id) ==
    /\ id \in DOMAIN fields
    /\ Commit(HandlerDeleteField(LinkState, id), "delete", id, fields[id].type)
    /\ UNCHANGED outsideLink

InitLink ==
    /\ fields = <<>>
    /\ nextFieldId = 1
    /\ linkLast = [op |-> "init", field |-> None, type |-> "none",
                   error |-> "ok", calls |-> 0, from |-> FieldBefore(None)]

\* A text field takes no link-row values.
NoLinkValues == Values(FALSE, None, UserFieldName, None, None)

NextLink ==
    \/ \E t \in Tables : CreateField(t, "text", NoLinkValues)
    \/ \E t \in Tables, v \in UserValues : CreateField(t, "link_row", v)
    \/ \E id \in 1..MaxFieldId : UpdateField(id, "text", NoLinkValues)
    \/ \E id \in 1..MaxFieldId, v \in UserValues : UpdateField(id, "link_row", v)
    \/ \E id \in 1..MaxFieldId : DeleteField(id)

(***************************************************************************)
(*                   PROPERTIES OF THE LINK-ROW COMPONENT                  *)
(***************************************************************************)

LinkRowIds == {i \in DOMAIN fields : fields[i].type = "link_row"}

\* Every link-row field has a related link-row field, in its linked table,
\* whose related field it is.
PairingSymmetric ==
    \A i \in LinkRowIds :
        LET p == fields[i].link_row_related_field IN
        /\ p \in LinkRowIds
        /\ fields[p].link_row_related_field = i
        /\ fields[p].table = fields[i].link_row_table

\* A successful creation of a link-row field A adds A and exactly one more
\* field B, on the linked table, named after A's table, each the other's
\* related field; the fields that existed are left as they were.
PairCreated ==
    (linkLast'.op = "create" /\ linkLast'.type = "link_row"
        /\ linkLast'.error = "ok")
    => LET A == linkLast'.field
           new == DOMAIN fields' \ DOMAIN fields
       IN  /\ A \in new
           /\ \E B \in new \ {A} :
                /\ new = {A, B}
                /\ fields'[B].type = "link_row"
                /\ fields'[B].table = fields'[A].link_row_table
                /\ fields'[B].name = TableName(fields'[A].table)
                /\ fields'[B].link_row_table = fields'[A].table
                /\ fields'[A].link_row_related_field = B
                /\ fields'[B].link_row_related_field = A
           /\ \A i \in DOMAIN fields : fields'[i] = fields[i]

\* C1: link-row pairing is symmetric. Creating a link-row field A on T1 that
\* points to T2 gives T2 exactly one new link-row field B named after T1 with
\* B.link_row_table = T1, A.link_row_related_field = B and
\* B.link_row_related_field = A; and in every state reached by creating,
\* updating and deleting fields, every link-row field F is the related field
\* of its related field.
C1_PairingSymmetric == []PairingSymmetric /\ [][PairCreated]_vars

\* C1 witness: a link-row field was created and its pair exists.
C1_Witness ==
    /\ linkLast.op = "create" /\ linkLast.type = "link_row"
    /\ linkLast.error = "ok"
    /\ linkLast.field \in DOMAIN fields
    /\ fields[linkLast.field].link_row_related_field \in DOMAIN fields
    /\ fields[linkLast.field].table # fields[linkLast.field].link_row_table

\* No link-row field's related field is missing.
NoDanglingPair ==
    \A i \in LinkRowIds : fields[i].link_row_related_field \in DOMAIN fields

\* Deleting a link-row field removes exactly it and its related field.
DeleteRemovesBoth ==
    (linkLast'.op = "delete" /\ linkLast'.type = "link_row")
    => LET A == linkLast'.field
           B == fields[A].link_row_related_field
       IN  /\ linkLast'.error = "ok"
           /\ A \notin DOMAIN fields'
           /\ B \notin DOMAIN fields'
           /\ DOMAIN fields' = DOMAIN fields \ {A, B}

\* C2: deleting either side of a link-row pair deletes both: after the
\* deletion protocol (with after_delete) ran on one field of a pair neither
\* field exists, whichever side it started on, and no link-row field is ever
\* left whose related field does not exist.
C2_DeleteBothSides == []NoDanglingPair /\ [][DeleteRemovesBoth]_vars

\* C2 witness: the deletion started on the related field (the one created
\* second, by after_create) and removed the pair.
C2_Witness ==
    /\ linkLast.op = "delete" /\ linkLast.type = "link_row"
    /\ linkLast.error = "ok"
    /\ linkLast.field = 2 /\ nextFieldId = 3
    /\ fields = <<>>

\* Values that name a table of another database than `table`.
CrossDatabase(table, values) ==
    /\ values.has
    /\ values.link_row_table # None
    /\ TableDatabase(table) # TableDatabase(values.link_row_table)

\* In every state, creating a link-row field that points into another
\* database raises LinkRowTableNotInSameDatabase before any row is written.
CrossDatabaseCreateFails ==
    \A t \in Tables, v \in UserValues :
        CrossDatabase(t, v) =>
            LET r == HandlerCreateField(LinkState, t, "link_row", v) IN
            /\ r.error = "LinkRowTableNotInSameDatabase"
            /\ r.fields = fields
            /\ r.nextId = nextFieldId

\* A creation that raised leaves the Field rows as they were.
FailedCreateChangesNothing ==
    (linkLast'.op = "create" /\ linkLast'.error # "ok")
    => (fields' = fields /\ nextFieldId' = nextFieldId)

\* C3: a link-row creation whose linked table is in another database than
\* the owning table fails with LinkRowTableNotInSameDatabase, and the Field
\* rows of both tables are what they were before the attempt.
C3_CrossDatabaseCreate ==
    []CrossDatabaseCreateFails /\ [][FailedCreateChangesNothing]_vars

\* C3 witness: such a creation was attempted while fields existed.
C3_Witness ==
    /\ linkLast.op = "create"
    /\ linkLast.error = "LinkRowTableNotInSameDatabase"
    /\ fields # <<>>

\* Every link-row field's linked table is in the database of its own table.
SameDatabase ==
    \A i \in LinkRowIds :
        /\ fields[i].link_row_table \in Tables
        /\ TableDatabase(fields[i].link_row_table) = TableDatabase(fields[i].table)

\* In every state, an update that supplies a linked table of another
\* database raises LinkRowTableNotInSameDatabase and has written nothing.
CrossDatabaseUpdateFails ==
    \A id \in DOMAIN fields, v \in UserValues :
        CrossDatabase(fields[id].table, v) =>
            LET r == HandlerUpdateField(LinkState, id, "link_row", v) IN
            /\ r.error = "LinkRowTableNotInSameDatabase"
            /\ r.fields = fields

\* An update that raised leaves the Field rows as they were.
FailedUpdateChangesNothing ==
    (linkLast'.op = "update" /\ linkLast'.error # "ok")
    => (fields' = fields /\ nextFieldId' = nextFieldId)

\* C4: same-database invariant. After any creations and updates, also updates
\* that change the linked table and so move the related field, every
\* link-row field (and so its related field) links to a table of its own
\* table's database; an update that supplies a linked table of another
\* database fails with LinkRowTableNotInSameDatabase and changes nothing.
C4_SameDatabase ==
    /\ [](SameDatabase /\ CrossDatabaseUpdateFails)
    /\ [][FailedUpdateChangesNothing]_vars

\* C4 witness: an update changed the linked table of a link-row field and
\* its related field moved with it (both fields are now on one table).
C4_Witness ==
    /\ linkLast.op = "update" /\ linkLast.type = "link_row"
    /\ linkLast.error = "ok"
    /\ linkLast.field \in LinkRowIds
    /\ fields[linkLast.field].link_row_table = fields[linkLast.field].table
    /\ fields[linkLast.field].name = UserFieldName
    /\ linkLast.field = 1 /\ nextFieldId = 3
    /\ fields[2].order = 2

\* Values without a linked table: the key is missing, or it is None.
NoLinkedTable(values) == ~values.has \/ values.link_row_table = None

\* In every state, creating a link-row field without a linked table raises
\* LinkRowTableNotProvided before any row is written or id used.
CreateWithoutTableFails ==
    \A t \in Tables, v \in UserValues :
        NoLinkedTable(v) =>
            LET r == HandlerCreateField(LinkState, t, "link_row", v) IN
            /\ r.error = "LinkRowTableNotProvided"
            /\ r.fields = fields
            /\ r.nextId = nextFieldId
            /\ r.calls = 1

\* C5: creating a link-row field with no linked table (the key absent, or
\* present and None) fails in before_create with LinkRowTableNotProvided
\* before any Field row or related field is created.
C5_CreateWithoutTable ==
    /\ []CreateWithoutTableFails
    /\ [][linkLast'.error = "LinkRowTableNotProvided"
            => (fields' = fields /\ nextFieldId' = nextFieldId)]_vars

\* C5 witness: such a creation was attempted while fields existed.
C5_Witness ==
    /\ linkLast.op = "create"
    /\ linkLast.error = "LinkRowTableNotProvided"
    /\ fields # <<>>

\* C6 (as claimed): updating a text field to type link-row with no linked
\* table fails in before_update with LinkRowTableNotProvided and leaves every
\* field unchanged.
C6_UpdateWithoutTableFails ==
    \A id \in DOMAIN fields, v \in UserValues :
        (fields[id].type = "text" /\ NoLinkedTable(v)) =>
            LET r == HandlerUpdateField(LinkState, id, "link_row", v) IN
            /\ LinkRowBeforeUpdate(fields[id], v) = "LinkRowTableNotProvided"
            /\ r.error = "LinkRowTableNotProvided"
            /\ r.fields = fields

\* A link-row field was created.
LinkRowCreated ==
    /\ linkLast'.op = "create"
    /\ linkLast'.type = "link_row"
    /\ linkLast'.error = "ok"

\* C20: the creation of the paired field ends after one hop. Creating a
\* link-row field makes exactly one nested create_field call, for the paired
\* field, and after_create of the paired field returns without creating a
\* field, because its pairing reference is set; the same holds when the
\* linked table is the field's own table.
C20_PairedCreationOneHop ==
    [][LinkRowCreated =>
          LET paired == fields'[linkLast'.field].link_row_related_field
              after == [fields |-> fields', nextId |-> nextFieldId',
                        error |-> "ok", calls |-> 0, created |-> None]
          IN  /\ linkLast'.calls = 2
              /\ DOMAIN fields' = DOMAIN fields \cup {linkLast'.field, paired}
              /\ paired \notin DOMAIN fields
              /\ fields'[paired].link_row_related_field = linkLast'.field
              /\ LinkRowAfterCreate(after, paired) = after
      ]_vars

\* C20 witness: a link-row field was created that links its own table, and
\* create_field was called twice.
C20_Witness ==
    /\ linkLast.op = "create" /\ linkLast.type = "link_row"
    /\ linkLast.error = "ok"
    /\ linkLast.calls = 2
    /\ fields[linkLast.field].link_row_table = fields[linkLast.field].table

\* C21: a Field change is all-or-nothing. When a step of a link-row create
\* or update fails, also one that fails after the Field row was written (the
\* creation of the paired field in after_create / after_update), the state
\* afterwards is the state before the operation, and no field is left without
\* its pair and no pair without its field.
C21_AllOrNothing ==
    /\ [](\A i \in LinkRowIds :
            /\ fields[i].link_row_related_field \in LinkRowIds
            /\ fields[fields[i].link_row_related_field].link_row_related_field = i)
    /\ [][linkLast'.error # "ok" =>
            /\ fields' = fields
            /\ nextFieldId' = nextFieldId]_vars

\* C21 witness: an update to link-row failed in after_update, after it had
\* written the Field row, while fields existed.
C21_Witness ==
    /\ linkLast.op = "update" /\ linkLast.type = "link_row"
    /\ linkLast.error = "InternalError"
    /\ linkLast.field \in DOMAIN fields
    /\ \E v \in UserValues :
         LET r == HandlerUpdateField(LinkState, linkLast.field, "link_row", v)
         IN  /\ r.error = "InternalError"
             /\ r.fields # fields
             /\ r.fields[linkLast.field].type = "link_row"
             /\ fields[linkLast.field].type = "text"

\* A link-row field was updated.
LinkRowUpdated ==
    /\ linkLast'.op = "update"
    /\ linkLast'.error = "ok"
    /\ linkLast'.from.type = "link_row"

\* What before_schema_change must have done to the related field of the
\* updated field.
PairKeptConsistent ==
    LET F == linkLast'.field
        P == fields[F].link_row_related_field
        T2 == fields[F].link_row_table
        T3 == fields'[F].link_row_table
    IN  IF fields'[F].type # "link_row"
        THEN /\ P \notin DOMAIN fields'
             /\ \A i \in DOMAIN fields' : fields'[i].link_row_related_field # F
        ELSE IF T3 # T2
        THEN /\ fields'[F].link_row_related_field = P
             /\ P \in DOMAIN fields'
             /\ fields'[P].type = "link_row"
             /\ fields'[P].link_row_related_field = F
             /\ fields'[P].table = T3
             /\ fields'[P].link_row_table = fields'[F].table
             /\ fields'[P].name = TableName(fields'[F].table)
             /\ \A i \in DOMAIN fields' \ {P} :
                    fields'[i].table = T3 => fields'[i].order < fields'[P].order
             /\ \A i \in DOMAIN fields' :
                    fields'[i].table = T2 => fields'[i].link_row_related_field # F
        ELSE fields'[P] = fields[P]

\* C24: before_schema_change keeps the pair consistent on update. When a
\* link-row field F becomes a field of another type its related field is
\* deleted and no field has F as its related field afterwards; when F stays
\* link-row and its linked table changes from T2 to T3, the same related
\* field is now on T3, links to F's table, is named after F's table and is
\* the last in order on T3, and T2 holds no field related to F; when the
\* linked table stays, the related field is left as it was.
C24_UpdateKeepsPairConsistent == [][LinkRowUpdated => PairKeptConsistent]_vars

\* C24 witness: an update changed the linked table of a link-row field and
\* its related field moved to the new linked table.
C24_Witness ==
    /\ linkLast.op = "update" /\ linkLast.type = "link_row"
    /\ linkLast.error = "ok"
    /\ linkLast.from.type = "link_row"
    /\ linkLast.field \in LinkRowIds
    /\ linkLast.from.link_row_table # fields[linkLast.field].link_row_table
    /\ fields[fields[linkLast.field].link_row_related_field].table
           = fields[linkLast.field].link_row_table

\* instance.through_table_name: the table of the join relation, as
\* after_model_generation hands it to the ManyToManyField of either side.
ThroughTableName(instance) ==
    "database_relation_" \o ToString(instance.link_row_relation_id)

\* C25: the join relation of a link-row pair has one physical
\* representation. In every reachable state both fields of a pair carry the
\* same link_row_relation_id (the related field is created with the relation
\* id of the field that creates it), so both sides name the same through
\* table, whichever side's model is generated first.
C25_OneJoinRelation ==
    \A i \in LinkRowIds :
        LET p == fields[i].link_row_related_field IN
        /\ p \in LinkRowIds
        /\ fields[i].link_row_relation_id # None
        /\ fields[p].link_row_relation_id = fields[i].link_row_relation_id
        /\ ThroughTableName(fields[p]) = ThroughTableName(fields[i])

\* C25 witness: a pair of link-row fields exists, made by a creation.
C25_Witness ==
    /\ linkLast.op = "create" /\ linkLast.type = "link_row"
    /\ linkLast.error = "ok"
    /\ LinkRowIds = {1, 2}
    /\ fields[1].link_row_related_field = 2
    /\ ThroughTableName(fields[2]) = "database_relation_1"

(***************************************************************************)
(*                          NUMBER COMPONENT                               *)
(***************************************************************************)

\* Bound of the number component: the rows of the table.
NumRows == 2

\* NumberFieldType.MAX_DIGITS
MAX_DIGITS == 50

NUMBER_TYPE_INTEGER == "INTEGER"
NUMBER_TYPE_DECIMAL == "DECIMAL"

\* The decimal places a number field may have (two of the choices).
NumberDecimalPlaces == {1, 2}

\* A stored or provided value: NULL / None, or a decimal number, held as its
\* count of hundredths (-500 is -5.00, 49 is 0.49).
NumNull == [isnull |-> TRUE, v |-> 0]
Num(x) == [isnull |-> FALSE, v |-> x]

\* The numbers a caller provides.
NumberInputs == {NumNull} \cup {Num(x) : x \in {-500, -5, 0, 49}}

NumberConfigs ==
    [number_type : {NUMBER_TYPE_INTEGER, NUMBER_TYPE_DECIMAL},
     number_decimal_places : NumberDecimalPlaces,
     number_negative : BOOLEAN]

\* The decimal places of the column: get_model_field / get_serializer_field.
DecimalPlaces(instance) ==
    IF instance.number_type = NUMBER_TYPE_INTEGER
    THEN 0
    ELSE instance.number_decimal_places

\* NumberFieldType.get_model_field: the column's type, numeric(max_digits,
\* decimal_places).
NumberModelField(instance) ==
    [max_digits |-> MAX_DIGITS + DecimalPlaces(instance),
     decimal_places |-> DecimalPlaces(instance)]

\* 10^(2 - places): the hundredths in one unit of the last kept place.
Unit(places) == IF places = 0 THEN 100 ELSE IF places = 1 THEN 10 ELSE 1

\* PostgreSQL's round(numeric, places): ties go away from zero.
Round(x, places) ==
    LET u == Unit(places)
        a == IF x < 0 THEN -x ELSE x
        q == ((2 * a + u) \div (2 * u)) * u
    IN  IF x < 0 THEN -q ELSE q

\* NumberFieldType.get_serializer_field: a DecimalField of the column's
\* decimal places; a value with more places is not accepted.
NumberSerializerAccepts(instance, value) ==
    value.isnull \/ Round(value.v, DecimalPlaces(instance)) = value.v

\* NumberFieldType.prepare_value_for_db: the error raised, or "ok" (the value
\* itself is returned as a Decimal).
NumberPrepareValueForDb(instance, value) ==
    IF ~value.isnull /\ ~instance.number_negative /\ value.v < 0
    THEN "ValidationError"
    ELSE "ok"

\* get_alter_column_prepare_new_value that only rounds.
NumberAlterColumnPrepareNewValue_RoundOnly(to_field, p_in) ==
    LET places == IF to_field.number_type = NUMBER_TYPE_DECIMAL
                  THEN to_field.number_decimal_places
                  ELSE 0
    IN  IF p_in.isnull THEN NumNull ELSE Num(Round(p_in.v, places))

\* NumberFieldType.get_alter_column_prepare_new_value:
\* p_in = round(p_in::numeric, places), inside greatest(..., 0) when the new
\* field does not allow negatives. PostgreSQL's greatest ignores a NULL
\* argument; round of NULL is NULL.
NumberAlterColumnPrepareNewValue(to_field, p_in) ==
    LET places == IF to_field.number_type = NUMBER_TYPE_DECIMAL
                  THEN to_field.number_decimal_places
                  ELSE 0
        rounded == IF p_in.isnull THEN NumNull ELSE Num(Round(p_in.v, places))
    IN  IF ~to_field.number_negative
        THEN IF rounded.isnull \/ rounded.v < 0 THEN Num(0) ELSE rounded
        ELSE rounded

\* after_update without the backfill.
NumberAfterUpdate_Noop(from_field, to_field, altered_column, rows) == rows

\* after_update that backfills whenever the column was not altered.
NumberAfterUpdate_Always(from_field, to_field, altered_column, rows) ==
    IF ~altered_column
    THEN [r \in DOMAIN rows |->
            IF ~rows[r].isnull /\ rows[r].v < 0 THEN Num(0) ELSE rows[r]]
    ELSE rows

\* NumberFieldType.after_update: the rows of the table afterwards.
NumberAfterUpdate(from_field, to_field, altered_column, rows) ==
    IF ~altered_column /\ ~to_field.number_negative /\ from_field.number_negative
    THEN [r \in DOMAIN rows |->
            IF ~rows[r].isnull /\ rows[r].v < 0 THEN Num(0) ELSE rows[r]]
    ELSE rows

\* The schema editor's alter_field: only a column whose type changes is
\* rewritten, each value through the new type's prepare-new-value fragment.
SchemaEditorAlterNumber(from_field, to_field, rows) ==
    IF NumberModelField(from_field) # NumberModelField(to_field)
    THEN [r \in DOMAIN rows |-> NumberAlterColumnPrepareNewValue(to_field, rows[r])]
    ELSE rows

\* FieldHandler.update_field of a number field that stays a number field.
HandlerUpdateNumberField(from_field, to_field, rows) ==
    LET altered_column == NumberModelField(from_field) # NumberModelField(to_field)
        altered_rows == SchemaEditorAlterNumber(from_field, to_field, rows)
    IN  NumberAfterUpdate(from_field, to_field, altered_column, altered_rows)

HasNegative(rows) == \E r \in DOMAIN rows : ~rows[r].isnull /\ rows[r].v < 0

\* A row is written through the API: the serializer, then prepare_value_for_db.
NumberWriteRow(r, value) ==
    /\ LET error == IF ~NumberSerializerAccepts(numField, value)
                    THEN "ValidationError"
                    ELSE NumberPrepareValueForDb(numField, value)
       IN  /\ numRows' = IF error = "ok"
                         THEN [numRows EXCEPT ![r] = value]
                         ELSE numRows
           /\ numLast' = [op |-> "write", error |-> error, altered |-> FALSE,
                          from_negative |-> numField.number_negative,
                          had_negative |-> HasNegative(numRows)]
    /\ UNCHANGED <<numField, outsideNumber>>

\* The field's configuration is updated.
NumberUpdateField(to_field) ==
    /\ numRows' = HandlerUpdateNumberField(numField, to_field, numRows)
    /\ numField' = to_field
    /\ numLast' = [op |-> "update", error |-> "ok",
                   altered |-> NumberModelField(numField) # NumberModelField(to_field),
                   from_negative |-> numField.number_negative,
                   had_negative |-> HasNegative(numRows)]
    /\ UNCHANGED outsideNumber

\* A number field was just created: its column holds NULL in every row.
\* A number field as it is created when no option is given.
DefaultNumberField ==
    [number_type |-> NUMBER_TYPE_INTEGER, number_decimal_places |-> 1,
     number_negative |-> FALSE]

InitNumber ==
    /\ numField = DefaultNumberField
    /\ numRows = [r \in 1..NumRows |-> NumNull]
    /\ numLast = [op |-> "init", error |-> "ok", altered |-> FALSE,
                  from_negative |-> numField.number_negative,
                  had_negative |-> FALSE]

NextNumber ==
    \/ \E r \in 1..NumRows, v \in NumberInputs : NumberWriteRow(r, v)
    \/ \E c \in NumberConfigs : NumberUpdateField(c)

(***************************************************************************)
(*                   PROPERTIES OF THE NUMBER COMPONENT                    *)
(***************************************************************************)

IsNegative(value) == ~value.isnull /\ value.v < 0

\* An update that only changes number_negative from true to false.
OnlyDisallowsNegative ==
    /\ numLast'.op = "update"
    /\ numField.number_negative /\ ~numField'.number_negative
    /\ numField'.number_type = numField.number_type
    /\ numField'.number_decimal_places = numField.number_decimal_places

\* C7: an update of a number field that only changes number_negative from
\* true to false leaves the column's type as it was (altered_column is
\* false), and afterwards every row whose value was negative holds 0 and
\* every other row (non-negative or NULL) holds the value it had.
C7_NegativeBackfill ==
    [][OnlyDisallowsNegative =>
        /\ ~numLast'.altered
        /\ NumberModelField(numField') = NumberModelField(numField)
        /\ \A r \in 1..NumRows :
              numRows'[r] = IF IsNegative(numRows[r]) THEN Num(0) ELSE numRows[r]
      ]_vars

\* C7 witness: such an update ran on a table that held a negative value, a
\* positive value is still there.
C7_Witness ==
    /\ numLast.op = "update" /\ ~numLast.altered
    /\ numLast.from_negative /\ ~numField.number_negative
    /\ numLast.had_negative
    /\ numRows[1] = Num(0)
    /\ numRows[2] = Num(49)

\* An update that does not alter the column.
UpdateWithoutAlteration == numLast'.op = "update" /\ ~numLast'.altered

\* Negatives were allowed before the update and are not after it.
NewlyDisallowed == numField.number_negative /\ ~numField'.number_negative

\* C8: an update of a number field that does not alter the column and changes
\* number_negative from false to true, or leaves it as it is, leaves every
\* row's value unchanged (-5 stays -5); a negative value becomes 0 only in an
\* update that disallows negatives again.
C8_ValuesKeptWhenAllowed ==
    [][UpdateWithoutAlteration =>
        \A r \in 1..NumRows :
            numRows'[r] = IF IsNegative(numRows[r]) /\ NewlyDisallowed
                          THEN Num(0)
                          ELSE numRows[r]
      ]_vars

\* C8 witness: an update that did not alter the column ran while negatives
\* were and stay allowed, and the row valued -5 still holds -5.
C8_Witness ==
    /\ numLast.op = "update" /\ ~numLast.altered
    /\ numField.number_negative
    /\ numLast.had_negative
    /\ numRows[1] = Num(-500)

\* C28: no negative value survives disallowing negatives. After any row
\* writes that pass through prepare_value_for_db and any updates of the
\* number field (of number_type, number_decimal_places and number_negative
\* in any combination, whether or not the column is altered, also an update
\* that changes the decimal places and disallows negatives at once), a field
\* whose number_negative is false has no row with a value below zero.
C28_NoNegativeSurvives ==
    ~numField.number_negative => \A r \in 1..NumRows : ~IsNegative(numRows[r])

\* C28 witness: an update changed the column's decimal places and disallowed
\* negatives at once, on a table that held a negative value.
C28_Witness ==
    /\ numLast.op = "update" /\ numLast.altered
    /\ numLast.from_negative /\ ~numField.number_negative
    /\ numLast.had_negative
    /\ numField.number_type = NUMBER_TYPE_DECIMAL
    /\ numRows[1] = Num(0)
    /\ numRows[2] = Num(50)

(***************************************************************************)
(*                          SELECT COMPONENT                               *)
(***************************************************************************)

\* Bounds of the select component: the rows of the table and the highest
\* SelectOption id handed out.
NumSelectRows == 2
MaxOptionId == 4

\* A value of the single-select column (an integer column holding option
\* ids) and a value of a text column or of p_in inside the cast function.
IdNull == [isnull |-> TRUE, id |-> 0]
Id(i) == [isnull |-> FALSE, id |-> i]
TextNull == [isnull |-> TRUE, s |-> ""]
Text(s) == [isnull |-> FALSE, s |-> s]

\* The texts of the model: the values of select options, and the texts of
\* cells.
OptionValues == {"Red", "red", "Blue"}
Texts == OptionValues \cup {"1"}

\* PostgreSQL's lower().
Lower(s) == IF s = "Red" THEN "red" ELSE IF s = "Blue" THEN "blue" ELSE s

\* The select_options payloads of an update (the value texts, in order).
OptionPayloads ==
    {<<>>} \cup {<<a>> : a \in OptionValues}
           \cup {<<a, b>> : a \in {"Red"}, b \in {"Blue", "red"}}

\* column::text of the integer column, and ::integer of a text.
IntegerToText(value) == IF value.isnull THEN TextNull ELSE Text(ToString(value.id))

IsIntegerText(s) == \E i \in 0..(MaxOptionId + 1) : ToString(i) = s

ParseInteger(s) == CHOOSE i \in 0..(MaxOptionId + 1) : ToString(i) = s

\* What a fragment leaves: p_in, or an exception raised inside the function.
Raised == [isnull |-> TRUE, s |-> "", raised |-> TRUE]

\* SingleSelectFieldType.get_alter_column_prepare_old_value, for a new field
\* that is not a single-select field: what the returned fragment makes of
\* p_in. Without options None is returned: there is no fragment and p_in is
\* left as it is. Otherwise
\*   p_in = (SELECT value FROM (VALUES ('<id>', <value>), ...) WHERE key = p_in).
SingleSelectPrepareOldValue(options, p_in) ==
    IF DOMAIN options = {}
    THEN p_in
    ELSE LET matches == {i \in DOMAIN options : ~p_in.isnull /\ ToString(i) = p_in.s}
         IN  IF matches = {}
             THEN TextNull
             ELSE Text(options[CHOOSE i \in matches : TRUE])

\* The new-value fragment with the option texts not lower-cased:
\*   VALUES (<value>, '<id>') ... WHERE key = lower(p_in).
SingleSelectPrepareNewValue_NoLower(options, p_in) ==
    IF DOMAIN options = {}
    THEN p_in
    ELSE LET matches == {i \in DOMAIN options :
                            ~p_in.isnull /\ options[i] = Lower(p_in.s)}
         IN  IF matches = {}
             THEN TextNull
             ELSE IF Cardinality(matches) > 1
             THEN Raised
             ELSE Text(ToString(CHOOSE i \in matches : TRUE))

\* SingleSelectFieldType.get_alter_column_prepare_new_value, for an old field
\* that was not a single-select field: what the returned fragment makes of
\* p_in. Without options None is returned and p_in is left as it is. Otherwise
\*   p_in = (SELECT value FROM (VALUES (lower(<value>), '<id>'), ...)
\*           WHERE key = lower(p_in));
\* a scalar subquery that yields more than one row raises.
SingleSelectPrepareNewValue(options, p_in) ==
    IF DOMAIN options = {}
    THEN p_in
    ELSE LET matches == {i \in DOMAIN options :
                            ~p_in.isnull /\ Lower(options[i]) = Lower(p_in.s)}
         IN  IF matches = {}
             THEN TextNull
             ELSE IF Cardinality(matches) > 1
             THEN Raised
             ELSE Text(ToString(CHOOSE i \in matches : TRUE))

\* The lenient schema editor's cast function for a single-select column that
\* becomes a text column: the old-value fragment, then p_in::text.
SchemaEditorSelectToText(options, value) ==
    SingleSelectPrepareOldValue(options, IntegerToText(value))

\* The cast function for a text column that becomes a single-select column:
\* the new-value fragment, then p_in::integer; an exception gives NULL.
SchemaEditorTextToSelect(options, value) ==
    LET p_in == SingleSelectPrepareNewValue(options, value) IN
    IF "raised" \in DOMAIN p_in \/ p_in.isnull
    THEN IdNull
    ELSE IF IsIntegerText(p_in.s)
    THEN Id(ParseInteger(p_in.s))
    ELSE IdNull

\* SingleSelectFieldType.prepare_value_for_db for None or an integer: the
\* error raised, or "ok".
SingleSelectPrepareValueForDb(options, value) ==
    IF value.isnull
    THEN "ok"
    ELSE IF value.id \in DOMAIN options
    THEN "ok"
    ELSE "ValidationError"

\* FieldHandler.update_field_select_options with a payload of new options:
\* each gets the next id.
CreateOptions(payload, first) ==
    [i \in {first + k - 1 : k \in 1..Len(payload)} |-> payload[i - first + 1]]

SelectHistory(op, error) == [op |-> op, error |-> error]

\* A select option is added to the single-select field.
SelectAddOption(value) ==
    /\ selType = "single_select"
    /\ nextOptionId <= MaxOptionId
    /\ selOptions' = (nextOptionId :> value) @@ selOptions
    /\ nextOptionId' = nextOptionId + 1
    /\ selLast' = SelectHistory("add_option", "ok")
    /\ UNCHANGED <<selType, selRows, outsideSelect>>

\* A select option is deleted; the column of the generated table model is
\* not known to the deletion (db_constraint=False, model not registered), so
\* rows keep the id.
SelectDeleteOption(id) ==
    /\ selType = "single_select"
    /\ id \in DOMAIN selOptions
    /\ selOptions' = [i \in DOMAIN selOptions \ {id} |-> selOptions[i]]
    /\ selLast' = SelectHistory("delete_option", "ok")
    /\ UNCHANGED <<selType, selRows, nextOptionId, outsideSelect>>

\* A row of the single-select field is written.
SelectWriteRow(r, value) ==
    /\ selType = "single_select"
    /\ LET error == SingleSelectPrepareValueForDb(selOptions, value) IN
       /\ selRows' = IF error = "ok" THEN [selRows EXCEPT ![r] = value] ELSE selRows
       /\ selLast' = SelectHistory("write", error)
    /\ UNCHANGED <<selType, selOptions, nextOptionId, outsideSelect>>

\* A row of the text field is written.
TextWriteRow(r, value) ==
    /\ selType = "text"
    /\ selRows' = [selRows EXCEPT ![r] = value]
    /\ selLast' = SelectHistory("write", "ok")
    /\ UNCHANGED <<selType, selOptions, nextOptionId, outsideSelect>>

\* update_field: the single-select field becomes a text field. The column is
\* altered through the cast function; a text field has no select options, so
\* they are deleted.
ConvertToText ==
    /\ selType = "single_select"
    /\ selType' = "text"
    /\ selRows' = [r \in DOMAIN selRows |->
                      SchemaEditorSelectToText(selOptions, selRows[r])]
    /\ selOptions' = <<>>
    /\ selLast' = SelectHistory("to_text", "ok")
    /\ UNCHANGED <<nextOptionId, outsideSelect>>

\* update_field: the text field becomes a single-select field. before_update
\* stores the select_options payload, then the column is altered through the
\* cast function.
ConvertToSingleSelect(payload) ==
    /\ selType = "text"
    /\ nextOptionId + Len(payload) <= MaxOptionId + 1
    /\ LET options == CreateOptions(payload, nextOptionId) IN
       /\ selOptions' = options
       /\ selRows' = [r \in DOMAIN selRows |->
                         SchemaEditorTextToSelect(options, selRows[r])]
    /\ selType' = "single_select"
    /\ nextOptionId' = nextOptionId + Len(payload)
    /\ selLast' = SelectHistory("to_single_select", "ok")
    /\ UNCHANGED outsideSelect

\* A text field was just created: its column holds NULL in every row.
InitSelect ==
    /\ selType = "text"
    /\ selOptions = <<>>
    /\ selRows = [r \in 1..NumSelectRows |-> TextNull]
    /\ nextOptionId = 1
    /\ selLast = [op |-> "init", error |-> "ok"]

\* The operations that change the field's options or its type.
NextSelectOptions ==
    \/ \E v \in OptionValues : SelectAddOption(v)
    \/ \E id \in 1..MaxOptionId : SelectDeleteOption(id)
    \/ ConvertToText
    \/ \E payload \in OptionPayloads : ConvertToSingleSelect(payload)

NextSelect ==
    \/ \E v \in OptionValues : SelectAddOption(v)
    \/ \E id \in 1..MaxOptionId : SelectDeleteOption(id)
    \/ \E r \in 1..NumSelectRows, v \in {IdNull} \cup {Id(i) : i \in 1..MaxOptionId} :
            SelectWriteRow(r, v)
    \/ \E r \in 1..NumSelectRows, v \in {TextNull} \cup {Text(t) : t \in Texts} :
            TextWriteRow(r, v)
    \/ ConvertToText
    \/ \E payload \in OptionPayloads : ConvertToSingleSelect(payload)

(***************************************************************************)
(*                   PROPERTIES OF THE SELECT COMPONENT                    *)
(***************************************************************************)

SelectRowIds == 1..NumSelectRows

\* C9 (as claimed): converting a single-select field that has no options to
\* text never fails and leaves NULL in every row, whatever the rows held
\* (also the id of an option that no longer exists).
C9_ZeroOptionsToTextGivesNull ==
    [][(selLast'.op = "to_text" /\ DOMAIN selOptions = {})
        => /\ selLast'.error = "ok"
           /\ \A r \in SelectRowIds : selRows'[r] = TextNull
      ]_vars

\* No two options have values that are equal ignoring case.
DistinctIgnoringCase(options) ==
    \A i, j \in DOMAIN options :
        i # j => Lower(options[i]) # Lower(options[j])

\* Converting to text gives each row the value text of its option; NULL
\* stays NULL.
ToTextMapsIdToValue ==
    (selLast'.op = "to_text" /\ DistinctIgnoringCase(selOptions))
    => \A r \in SelectRowIds :
          /\ selRows[r].isnull => selRows'[r] = TextNull
          /\ (~selRows[r].isnull /\ selRows[r].id \in DOMAIN selOptions)
                => selRows'[r] = Text(selOptions[selRows[r].id])

\* Converting to single-select gives each row the id of the option whose
\* value equals the row's text ignoring case; NULL stays NULL.
ToSelectMapsValueToId ==
    (selLast'.op = "to_single_select" /\ DistinctIgnoringCase(selOptions'))
    => \A r \in SelectRowIds :
          /\ selRows[r].isnull => selRows'[r] = IdNull
          /\ \A i \in DOMAIN selOptions' :
                (~selRows[r].isnull /\ Lower(selRows[r].s) = Lower(selOptions'[i]))
                    => selRows'[r] = Id(i)

\* With the options of the field, the conversion to text followed by the
\* conversion back gives every option id, and NULL, back.
RoundTripIsIdentity ==
    (selType = "single_select" /\ DistinctIgnoringCase(selOptions))
    => \A v \in {IdNull} \cup {Id(i) : i \in DOMAIN selOptions} :
          SchemaEditorTextToSelect(selOptions,
                                   SchemaEditorSelectToText(selOptions, v)) = v

\* C10: single-select / text round trip. For a single-select field whose
\* options have values that differ pairwise ignoring case, converting to text
\* gives each row holding option id i that option's value text (NULL stays
\* NULL), converting to single-select gives each text the id of the option
\* with that value, matched ignoring case, and so the old-value bridge
\* followed by the new-value bridge with the same options is the identity on
\* option ids.
C10_SelectTextRoundTrip ==
    /\ []RoundTripIsIdentity
    /\ [][ToTextMapsIdToValue /\ ToSelectMapsValueToId]_vars

\* C10 witness: after options 1 and 2 were used and the field was a text
\* field, it was converted to single-select with the options Red and Blue,
\* and a row's text resolved to the option Red while another row's text
\* resolved to nothing.
C10_Witness ==
    /\ selLast.op = "to_single_select"
    /\ selOptions = (3 :> "Red" @@ 4 :> "Blue")
    /\ selRows[1] = Id(3)
    /\ selRows[2] = IdNull

\* C11: the text to single-select new-value bridge is total. For every
\* incoming text and every option set of the target field (two options equal
\* ignoring case and the empty option set included), after the conversion each
\* row holds the id of an option of the field or NULL, and the conversion does
\* not fail.
C11_NewValueBridgeTotal ==
    [][selLast'.op = "to_single_select" =>
          /\ selLast'.error = "ok"
          /\ \A r \in SelectRowIds :
                 \/ selRows'[r] = IdNull
                 \/ \E i \in DOMAIN selOptions' : selRows'[r] = Id(i)
      ]_vars

(***************************************************************************)
(*          THE TEXT OF THE SINGLE-SELECT CONVERSION FRAGMENTS             *)
(***************************************************************************)

\* f'option_{option.id}_value'
VariableName(id) == "option_" \o ToString(id) \o "_value"

\* The option ids in the order of select_options.all().
RECURSIVE OptionIdsInOrder(_)
OptionIdsInOrder(ids) ==
    IF ids = {} THEN <<>>
    ELSE LET first == CHOOSE i \in ids : \A j \in ids : i <= j
         IN  <<first>> \o OptionIdsInOrder(ids \ {first})

\* ','.join(values_mapping)
RECURSIVE Join(_)
Join(values_mapping) ==
    IF Len(values_mapping) = 0 THEN ""
    ELSE IF Len(values_mapping) = 1 THEN Head(values_mapping)
    ELSE Head(values_mapping) \o "," \o Join(Tail(values_mapping))

\* variables: variable name -> option value.
FragmentVariables(options) ==
    [n \in {VariableName(i) : i \in DOMAIN options} |->
        options[CHOOSE i \in DOMAIN options : VariableName(i) = n]]

\* What a hook returns when it returns None.
NoSql == [sql |-> "", variables |-> <<>>]

\* The old-value hook with the option value written into the SQL text.
SingleSelectOldValueFragment_Inline(options) ==
    LET ids == OptionIdsInOrder(DOMAIN options)
        values_mapping ==
            [k \in 1..Len(ids) |->
                "('" \o ToString(ids[k]) \o "', '" \o options[ids[k]] \o "')"]
    IN  IF Len(values_mapping) = 0
        THEN NoSql
        ELSE [sql |-> "p_in = (SELECT value FROM (VALUES "
                        \o Join(values_mapping)
                        \o ") AS values (key, value) WHERE key = p_in);",
              variables |-> FragmentVariables(options)]

\* SingleSelectFieldType.get_alter_column_prepare_old_value, for a new field
\* that is not a single-select field: the SQL text and the variables.
SingleSelectOldValueFragment(options) ==
    LET ids == OptionIdsInOrder(DOMAIN options)
        values_mapping ==
            [k \in 1..Len(ids) |->
                "('" \o ToString(ids[k]) \o "', %(" \o VariableName(ids[k]) \o ")s)"]
    IN  IF Len(values_mapping) = 0
        THEN NoSql
        ELSE [sql |-> "p_in = (SELECT value FROM (VALUES "
                        \o Join(values_mapping)
                        \o ") AS values (key, value) WHERE key = p_in);",
              variables |-> FragmentVariables(options)]

\* SingleSelectFieldType.get_alter_column_prepare_new_value, for an old field
\* that was not a single-select field: the SQL text and the variables.
SingleSelectNewValueFragment(options) ==
    LET ids == OptionIdsInOrder(DOMAIN options)
        values_mapping ==
            [k \in 1..Len(ids) |->
                "(lower(%(" \o VariableName(ids[k]) \o ")s), '"
                    \o ToString(ids[k]) \o "')"]
    IN  IF Len(values_mapping) = 0
        THEN NoSql
        ELSE [sql |-> "p_in = (SELECT value FROM (VALUES "
                        \o Join(values_mapping)
                        \o ") AS values (key, value) WHERE key = lower(p_in));",
              variables |-> FragmentVariables(options)]

\* An option value that would close the literal it is written into.
HostileValue == "'), ('1', (SELECT password FROM auth_user LIMIT 1)) --"

\* The option set with the ids of the field's options in which every value
\* is the hostile one.
HostileOptions == [i \in DOMAIN selOptions |-> HostileValue]

\* C15: the text of both single-select conversion fragments depends on the
\* option ids only, never on the option values: for the field's options and
\* for the options with the same ids and other values both hooks return the
\* same SQL text, and the value of each option is the value of the variable
\* named for its id.
C15_FragmentTextIgnoresValues ==
    LET old == SingleSelectOldValueFragment(selOptions)
        new == SingleSelectNewValueFragment(selOptions)
        hostile_old == SingleSelectOldValueFragment(HostileOptions)
        hostile_new == SingleSelectNewValueFragment(HostileOptions)
    IN  /\ hostile_old.sql = old.sql
        /\ hostile_new.sql = new.sql
        /\ \A i \in DOMAIN selOptions :
              /\ old.variables[VariableName(i)] = selOptions[i]
              /\ new.variables[VariableName(i)] = selOptions[i]
              /\ hostile_old.variables[VariableName(i)] = HostileValue
              /\ hostile_new.variables[VariableName(i)] = HostileValue

\* C15 witness: the field was converted to single-select with two options,
\* and the new-value fragment names both by their ids.
C15_Witness ==
    /\ selLast.op = "to_single_select"
    /\ DOMAIN selOptions = {1, 2}
    /\ SingleSelectNewValueFragment(selOptions).sql =
          "p_in = (SELECT value FROM (VALUES "
          \o "(lower(%(option_1_value)s), '1'),(lower(%(option_2_value)s), '2')"
          \o ") AS values (key, value) WHERE key = lower(p_in));"

(***************************************************************************)
(*      THE CONVERSION COMPONENT: TEXT, DATE, URL AND EMAIL FIELDS         *)
(*                                                                         *)
(* One field of a table and its column. The field is updated from one type *)
(* or configuration to another; when the column's type changes the lenient *)
(* schema editor rewrites every row through its cast function:             *)
(*     p_in = <column>::text;                                              *)
(*     <old-value fragment of the old type>                                *)
(*     <new-value fragment of the new type>                                *)
(*     return p_in::<new column type>;   an exception returns NULL.        *)
(***************************************************************************)

NumConvRows == 2

\* The keys of DATE_FORMAT; date_time_format is kept at '24'.
DateFormats == {"EU", "US", "ISO"}

\* Times of day, in minutes; NoTime marks a text or a date without one.
NoTime == -1
MidnightUTC == 0
HalfPastTen == 630

\* Stored values. A text is either a word (s is the word) or a date-like
\* text: three numbers a, b, c separated by s ("/" or "-"), and a time of
\* day when it has one. A date is a calendar date and, in a timestamp
\* column, a time of day in UTC.
ConvNull == [isnull |-> TRUE, kind |-> "null"]

TextValue(s, a, b, c, time) ==
    [isnull |-> FALSE, kind |-> "text", s |-> s, a |-> a, b |-> b, c |-> c,
     time |-> time]

Word(s) == TextValue(s, 0, 0, 0, NoTime)

DateValue(y, m, d, time) ==
    [isnull |-> FALSE, kind |-> "date", y |-> y, m |-> m, d |-> d, time |-> time]

IsDateLike(t) == t.s \in {"/", "-"}

\* The texts that are written into a text field.
ConvTexts ==
    { TextValue("/", 15, 1, 2020, NoTime),      \* 15/01/2020
      TextValue("/", 1, 2, 2020, NoTime),       \* 01/02/2020
      TextValue("-", 2020, 1, 15, NoTime),      \* 2020-01-15
      TextValue("-", 2020, 1, 15, HalfPastTen), \* 2020-01-15 10:30
      Word("abc"), Word(""),
      Word("https://baserow.io"), Word("see https://baserow.io"),
      Word("bram@baserow.io") }

\* The field's type and configuration. A field that is not a date field
\* carries the defaults of the date attributes.
ConvField(type, date_format, date_include_time) ==
    [type |-> type, date_format |-> date_format,
     date_include_time |-> date_include_time]

ConvFields ==
    {ConvField(t, "EU", FALSE) : t \in {"text", "url", "email"}}
    \cup {ConvField("date", f, i) : f \in DateFormats, i \in BOOLEAN}

\* get_model_field of the four types: the column's type.
ConvModelField(field) ==
    CASE field.type = "text" -> "text"
      [] field.type = "url" -> "varchar(200)"
      [] field.type = "email" -> "varchar(254)"
      [] field.type = "date" ->
            IF field.date_include_time THEN "timestamp with time zone" ELSE "date"

\* PostgreSQL: a date is valid when its month and day are in range.
ValidDate(y, m, d) == m \in 1..12 /\ d \in 1..31

\* <column>::text of a date or timestamp column (ISO), of a text column.
ColumnToText(value) ==
    IF value.isnull THEN ConvNull
    ELSE IF value.kind = "date"
    THEN TextValue("-", value.y, value.m, value.d, value.time)
    ELSE value

\* The year, month and day that TO_DATE / TO_TIMESTAMP with the format read
\* from a date-like text: FMDD/MM/YYYY, FMMM/DD/YYYY or FMYYYY-MM-DD (any
\* separator is accepted in the text).
FormatFields(date_format, t) ==
    CASE date_format = "EU" -> [y |-> t.c, m |-> t.b, d |-> t.a]
      [] date_format = "US" -> [y |-> t.c, m |-> t.a, d |-> t.b]
      [] date_format = "ISO" -> [y |-> t.a, m |-> t.b, d |-> t.c]

\* TO_DATE / TO_TIMESTAMP raises for a text that is not date-like and for
\* fields out of range.
ToDateRaises(date_format, t) ==
    \/ ~IsDateLike(t)
    \/ LET f == FormatFields(date_format, t) IN ~ValidDate(f.y, f.m, f.d)

\* The year, month and day the casts ::date and ::timestamptz read from a
\* date-like text (DateStyle ISO, MDY): y-m-d, or m/d/y.
CastFields(t) ==
    IF t.s = "-" THEN [y |-> t.a, m |-> t.b, d |-> t.c]
                 ELSE [y |-> t.c, m |-> t.a, d |-> t.b]

CastRaises(t) ==
    \/ ~IsDateLike(t)
    \/ LET f == CastFields(t) IN ~ValidDate(f.y, f.m, f.d)

\* The fragment that is absent: the hook returned None.
NoFragment == [fn |-> "None"]

\* DateFieldType.get_alter_column_prepare_old_value.
DateAlterColumnPrepareOldValue_Always(from_field, to_field) ==
    [fn |-> "TO_CHAR", sql_format |-> from_field.date_format,
     include_time |-> from_field.date_include_time]

DateAlterColumnPrepareOldValue(from_field, to_field) ==
    IF to_field.type # "date"
    THEN [fn |-> "TO_CHAR", sql_format |-> from_field.date_format,
          include_time |-> from_field.date_include_time]
    ELSE NoFragment

\* DateFieldType.get_alter_column_prepare_new_value.
DateAlterColumnPrepareNewValue_NullOnFailure(from_field, to_field) ==
    IF from_field.type # "date"
    THEN [fn |-> "TO_DATE_OR_NULL", sql_format |-> to_field.date_format,
          include_time |-> to_field.date_include_time]
    ELSE NoFragment

DateAlterColumnPrepareNewValue(from_field, to_field) ==
    IF from_field.type # "date"
    THEN [fn |-> "TO_DATE", sql_format |-> to_field.date_format,
          include_time |-> to_field.date_include_time]
    ELSE NoFragment

\* URLFieldType / EmailFieldType.get_alter_column_prepare_new_value.
URLAlterColumnPrepareNewValue_None(from_field, to_field) == NoFragment

URLAlterColumnPrepareNewValue(from_field, to_field) == [fn |-> "URL"]

EmailAlterColumnPrepareNewValue(from_field, to_field) == [fn |-> "EMAIL"]

\* p_in::text ~* the pattern of the URL fragment, of the Email fragment: the
\* patterns are not anchored.
MatchesURL(s) == s \in {"https://baserow.io", "see https://baserow.io"}

MatchesEmail(s) == s \in {"bram@baserow.io"}

\* TO_CHAR(p_in::date, format) and TO_CHAR(p_in::timestamp, format + time).
ToChar(fragment, p_in) ==
    IF p_in.isnull THEN ConvNull
    ELSE LET f == CastFields(p_in)
             time == IF fragment.include_time THEN p_in.time ELSE NoTime
         IN  CASE fragment.sql_format = "EU" -> TextValue("/", f.d, f.m, f.y, time)
               [] fragment.sql_format = "US" -> TextValue("/", f.m, f.d, f.y, time)
               [] fragment.sql_format = "ISO" -> TextValue("-", f.y, f.m, f.d, time)

\* TO_DATE(p_in::text, 'FM' format), TO_TIMESTAMP(p_in::text, 'FM' format +
\* time): the date or timestamp, as the text p_in holds afterwards.
ToDate(fragment, p_in) ==
    LET f == FormatFields(fragment.sql_format, p_in)
        time == IF ~fragment.include_time THEN NoTime
                ELSE IF p_in.time = NoTime THEN MidnightUTC ELSE p_in.time
    IN  TextValue("-", f.y, f.m, f.d, time)

\* What a fragment makes of p_in.
RunFragment(fragment, p_in) ==
    CASE fragment.fn = "None" -> p_in
      [] fragment.fn = "TO_CHAR" -> ToChar(fragment, p_in)
      [] fragment.fn = "TO_DATE" ->
            \* begin p_in = TO_DATE(...); exception when others then end;
            IF p_in.isnull THEN ConvNull
            ELSE IF ToDateRaises(fragment.sql_format, p_in) THEN p_in
            ELSE ToDate(fragment, p_in)
      [] fragment.fn = "TO_DATE_OR_NULL" ->
            IF p_in.isnull THEN ConvNull
            ELSE IF ToDateRaises(fragment.sql_format, p_in) THEN ConvNull
            ELSE ToDate(fragment, p_in)
      [] fragment.fn = "URL" ->
            IF ~p_in.isnull /\ MatchesURL(p_in.s) THEN p_in ELSE Word("")
      [] fragment.fn = "EMAIL" ->
            IF ~p_in.isnull /\ MatchesEmail(p_in.s) THEN p_in ELSE Word("")

\* return p_in::<type of the new column>; an exception returns NULL.
CastToColumn(to_field, p_in) ==
    IF p_in.isnull THEN ConvNull
    ELSE IF to_field.type # "date" THEN p_in
    ELSE IF CastRaises(p_in) THEN ConvNull
    ELSE LET f == CastFields(p_in)
             time == IF ~to_field.date_include_time THEN NoTime
                     ELSE IF p_in.time = NoTime THEN MidnightUTC ELSE p_in.time
         IN  DateValue(f.y, f.m, f.d, time)

\* The hooks update_field asks: the old-value hook of the old field's type
\* and the new-value hook of the new field's type.
OldValueFragment(from_field, to_field) ==
    IF from_field.type = "date"
    THEN DateAlterColumnPrepareOldValue(from_field, to_field)
    ELSE NoFragment

NewValueFragment(from_field, to_field) ==
    CASE to_field.type = "date" -> DateAlterColumnPrepareNewValue(from_field, to_field)
      [] to_field.type = "url" -> URLAlterColumnPrepareNewValue(from_field, to_field)
      [] to_field.type = "email" -> EmailAlterColumnPrepareNewValue(from_field, to_field)
      [] OTHER -> NoFragment

\* The text the new-value fragment is handed for a row.
BridgeText(from_field, to_field, value) ==
    RunFragment(OldValueFragment(from_field, to_field), ColumnToText(value))

\* The cast function of the lenient schema editor.
SchemaEditorCast(from_field, to_field, value) ==
    CastToColumn(to_field,
                 RunFragment(NewValueFragment(from_field, to_field),
                             BridgeText(from_field, to_field, value)))

\* update_field: the column is altered when its type changes.
ConvAlteredColumn(from_field, to_field) ==
    ConvModelField(from_field) # ConvModelField(to_field)

HandlerUpdateConvField(from_field, to_field, rows) ==
    IF ConvAlteredColumn(from_field, to_field)
    THEN [r \in DOMAIN rows |-> SchemaEditorCast(from_field, to_field, rows[r])]
    ELSE rows

\* A row of the text field is written.
ConvWriteRow(r, value) ==
    /\ convField.type = "text"
    /\ convRows' = [convRows EXCEPT ![r] = value]
    /\ convLast' = [op |-> "write", from |-> convField]
    /\ UNCHANGED <<convField, outsideConv>>

\* update_field with a new type or configuration.
ConvUpdateField(to_field) ==
    /\ convField' = to_field
    /\ convRows' = HandlerUpdateConvField(convField, to_field, convRows)
    /\ convLast' = [op |-> "update", from |-> convField]
    /\ UNCHANGED outsideConv

\* A text field was just created: every row holds NULL.
InitConv ==
    /\ convField = ConvField("text", "EU", FALSE)
    /\ convRows = [r \in 1..NumConvRows |-> ConvNull]
    /\ convLast = [op |-> "init", from |-> ConvField("text", "EU", FALSE)]

NextConv ==
    \/ \E r \in 1..NumConvRows, v \in ConvTexts \cup {ConvNull} : ConvWriteRow(r, v)
    \/ \E to_field \in ConvFields : ConvUpdateField(to_field)

(***************************************************************************)
(*                 PROPERTIES OF THE CONVERSION COMPONENT                  *)
(***************************************************************************)

ConvRowIds == 1..NumConvRows

\* An update of a date field without time of day to a date field with it.
DateGainsTime ==
    /\ convLast'.op = "update"
    /\ convField.type = "date" /\ ~convField.date_include_time
    /\ convField'.type = "date" /\ convField'.date_include_time

\* C12: when a date field's configuration changes from date-only to
\* include-time, neither hook of the date type gives a fragment (both return
\* the default, None) and every row that held the date d holds the timestamp
\* d at 00:00 UTC afterwards, never NULL.
C12_DateGainsTimeKeepsDate ==
    [][DateGainsTime =>
          /\ DateAlterColumnPrepareOldValue(convField, convField') = NoFragment
          /\ DateAlterColumnPrepareNewValue(convField, convField') = NoFragment
          /\ \A r \in ConvRowIds :
                ~convRows[r].isnull =>
                    convRows'[r] = DateValue(convRows[r].y, convRows[r].m,
                                             convRows[r].d, MidnightUTC)
      ]_vars

\* C12 witness: the row valued 2020-01-15 of a date field of format ISO
\* reads 2020-01-15 00:00 UTC after the field was updated to include time.
C12_Witness ==
    /\ convLast.op = "update"
    /\ convLast.from = ConvField("date", "ISO", FALSE)
    /\ convField = ConvField("date", "ISO", TRUE)
    /\ convRows[1] = DateValue(2020, 1, 15, MidnightUTC)

\* An update of a field that is not a date field to a date field.
BecomesDate ==
    /\ convLast'.op = "update"
    /\ convField.type # "date"
    /\ convField'.type = "date"

\* The time of day a value of the new field's column has for a text.
NewTime(to_field, t) ==
    IF ~to_field.date_include_time THEN NoTime
    ELSE IF t.time = NoTime THEN MidnightUTC ELSE t.time

\* C13 as stated: when a field that is not a date field is converted to a
\* date field, every row whose text fails to parse with the new field's
\* format holds NULL afterwards.
C13_UnparsableGivesNull ==
    [][BecomesDate =>
          \A r \in ConvRowIds :
             (~convRows[r].isnull
                 /\ ToDateRaises(convField'.date_format, convRows[r]))
                => convRows'[r] = ConvNull
      ]_vars

\* C13, amended: when a field that is not a date field is converted to a
\* date field, a row whose text parses with the new field's format holds the
\* parsed date; a row whose text fails to parse keeps its text for the cast
\* to the column's type and holds what that cast reads (NULL when the cast
\* fails too); NULL stays NULL. No row's failure changes another row's
\* outcome.
C13_UnparsableFallsBackToCast ==
    [][BecomesDate =>
          \A r \in ConvRowIds :
             LET t == convRows[r]
                 f == FormatFields(convField'.date_format, t)
                 c == CastFields(t)
             IN  /\ t.isnull => convRows'[r] = ConvNull
                 /\ (~t.isnull /\ ~ToDateRaises(convField'.date_format, t))
                       => convRows'[r] =
                             DateValue(f.y, f.m, f.d, NewTime(convField', t))
                 /\ (~t.isnull /\ ToDateRaises(convField'.date_format, t)
                        /\ CastRaises(t))
                       => convRows'[r] = ConvNull
                 /\ (~t.isnull /\ ToDateRaises(convField'.date_format, t)
                        /\ ~CastRaises(t))
                       => convRows'[r] =
                             DateValue(c.y, c.m, c.d, NewTime(convField', t))
      ]_vars

\* C13 witness: a text field became a date field of format ISO; the text
\* 01/02/2020 of row 1 did not parse as YYYY-MM-DD and the row holds
\* 2020-01-02, the date the cast reads.
C13_Witness ==
    /\ convLast.op = "update"
    /\ convLast.from.type = "text"
    /\ convField = ConvField("date", "ISO", FALSE)
    /\ convRows[1] = DateValue(2020, 1, 2, NoTime)

\* An update that alters the column into a URL or an Email column.
BecomesURLOrEmail ==
    /\ convLast'.op = "update"
    /\ ConvAlteredColumn(convField, convField')
    /\ convField'.type \in {"url", "email"}

MatchesPattern(field, p_in) ==
    /\ ~p_in.isnull
    /\ IF field.type = "url" THEN MatchesURL(p_in.s) ELSE MatchesEmail(p_in.s)

\* C14: in the URL and Email new-value bridge the result is the incoming text
\* unchanged when it matches the type's pattern and the empty string when it
\* does not match or is NULL; the result is never NULL.
C14_URLEmailBridge ==
    [][BecomesURLOrEmail =>
          \A r \in ConvRowIds :
             LET p_in == BridgeText(convField, convField', convRows[r]) IN
                /\ ~convRows'[r].isnull
                /\ MatchesPattern(convField', p_in) => convRows'[r] = p_in
                /\ ~MatchesPattern(convField', p_in) => convRows'[r] = Word("")
      ]_vars

\* C14 witness: a text field became a URL field; the URL of row 1 was kept
\* and row 2 holds the empty string.
C14_Witness ==
    /\ convLast.op = "update"
    /\ convLast.from.type = "text"
    /\ convField.type = "url"
    /\ convRows[1] = Word("https://baserow.io")
    /\ convRows[2] = Word("")

(***************************************************************************)
(*             THE COERCION COMPONENT: prepare_value_for_db                *)
(*                                                                         *)
(* A caller hands a raw value to prepare_value_for_db of a field's type,   *)
(* and hands the value it got back to prepare_value_for_db again.          *)
(***************************************************************************)

MaxFiles == 2

\* Python values.
PyNone == [t |-> "None"]
PyStr(s) == [t |-> "str", s |-> s]
PyInt(n) == [t |-> "int", n |-> n]
\* A Decimal, in hundredths.
PyDecimal(v) == [t |-> "Decimal", v |-> v]
PyDate(y, m, d) == [t |-> "date", y |-> y, m |-> m, d |-> d]
\* A datetime: the time of day in minutes and the UTC offset in minutes.
PyDateTime(y, m, d, minutes, utcoffset) ==
    [t |-> "datetime", y |-> y, m |-> m, d |-> d, minutes |-> minutes,
     utcoffset |-> utcoffset]
PyList(items) == [t |-> "list", items |-> items]
\* A SelectOption instance.
PySelectOption(id, field_id) == [t |-> "SelectOption", id |-> id, field_id |-> field_id]

\* What a call gives: the value returned, or the exception raised.
Returns(value) == [error |-> "ok", value |-> value]
Raises(error) == [error |-> error, value |-> PyNone]

\* URLValidator and EmailValidator.
URLValidatorAccepts(s) == s \in {"https://baserow.io"}
EmailValidatorAccepts(s) == s \in {"bram@baserow.io"}

\* URLFieldType.prepare_value_for_db.
URLPrepareValueForDb(instance, value) ==
    IF value = PyStr("") \/ value = PyNone
    THEN Returns(PyStr(""))
    ELSE IF value.t = "str" /\ URLValidatorAccepts(value.s)
    THEN Returns(value)
    ELSE Raises("ValidationError")

\* EmailFieldType.prepare_value_for_db.
EmailPrepareValueForDb(instance, value) ==
    IF value = PyStr("") \/ value = PyNone
    THEN Returns(PyStr(""))
    ELSE IF value.t = "str" /\ EmailValidatorAccepts(value.s)
    THEN Returns(value)
    ELSE Raises("ValidationError")

\* Decimal(value) of an int, of a str and of a Decimal.
DecimalOf(value) ==
    CASE value.t = "int" -> PyDecimal(100 * value.n)
      [] value.t = "Decimal" -> value
      [] value = PyStr("0.49") -> PyDecimal(49)
      [] value = PyStr("-5") -> PyDecimal(-500)

\* NumberFieldType.prepare_value_for_db, with the value it returns.
NumberPrepareValue(instance, value) ==
    IF value = PyNone
    THEN Returns(PyNone)
    ELSE LET decimal == DecimalOf(value) IN
         IF ~instance.number_negative /\ decimal.v < 0
         THEN Raises("ValidationError")
         ELSE Returns(decimal)

\* dateutil's parser.parse: a datetime, which has no time zone when the
\* string names none (utcoffset 0 here: the process runs in UTC).
ParserAccepts(s) == s \in {"2020-01-15", "2020-01-15T01:00:00+02:00"}

ParserParse(s) ==
    IF s = "2020-01-15"
    THEN PyDateTime(2020, 1, 15, 0, 0)
    ELSE PyDateTime(2020, 1, 15, 60, 120)

\* datetime.astimezone(utc).
AsTimezoneUTC(value) ==
    LET minutes == value.minutes - value.utcoffset IN
    IF minutes < 0
    THEN PyDateTime(value.y, value.m, value.d - 1, minutes + 1440, 0)
    ELSE IF minutes >= 1440
    THEN PyDateTime(value.y, value.m, value.d + 1, minutes - 1440, 0)
    ELSE PyDateTime(value.y, value.m, value.d, minutes, 0)

\* DateFieldType.prepare_value_for_db without the branch for date objects.
DatePrepareValueForDb_NoDateObjects(instance, value) ==
    IF value = PyNone \/ value = PyStr("")
    THEN Returns(value)
    ELSE IF value.t = "str" /\ ~ParserAccepts(value.s)
    THEN Raises("ValidationError")
    ELSE LET parsed == IF value.t = "str" THEN ParserParse(value.s) ELSE value
         IN  IF parsed.t = "datetime"
             THEN LET utc == AsTimezoneUTC(parsed) IN
                  IF instance.date_include_time
                  THEN Returns(utc)
                  ELSE Returns(PyDate(utc.y, utc.m, utc.d))
             ELSE Raises("ValidationError")

\* DateFieldType.prepare_value_for_db.
DatePrepareValueForDb(instance, value) ==
    IF value = PyNone \/ value = PyStr("")
    THEN Returns(value)
    ELSE IF value.t = "str" /\ ~ParserAccepts(value.s)
    THEN Raises("ValidationError")
    ELSE LET parsed == IF value.t = "str" THEN ParserParse(value.s) ELSE value
             aware == IF parsed.t = "date"
                      THEN PyDateTime(parsed.y, parsed.m, parsed.d, 0, 0)
                      ELSE parsed
         IN  IF aware.t = "datetime"
             THEN LET utc == AsTimezoneUTC(aware) IN
                  IF instance.date_include_time
                  THEN Returns(utc)
                  ELSE Returns(PyDate(utc.y, utc.m, utc.d))
             ELSE Raises("ValidationError")

\* The options of the single-select fields: option id -> field id.
PrepSelectOptions == (1 :> 1 @@ 2 :> 1 @@ 3 :> 2)

\* SingleSelectFieldType.prepare_value_for_db, with the value it returns.
SingleSelectPrepareValue(instance, value) ==
    IF value = PyNone
    THEN Returns(value)
    ELSE IF value.t = "int" /\ value.n \in DOMAIN PrepSelectOptions
                            /\ PrepSelectOptions[value.n] = instance.id
    THEN Returns(PySelectOption(value.n, instance.id))
    ELSE IF value.t = "SelectOption" /\ value.field_id = instance.id
    THEN Returns(value)
    ELSE Raises("ValidationError")

\* The uploaded files: name -> original name.
UserFiles == ("a.png" :> "photo.png" @@ "b.txt" :> "notes.txt")

\* UserFile.serialize, with the visible name.
Serialized(name, visible_name) ==
    [name |-> PyStr(name), original_name |-> PyStr(UserFiles[name]),
     visible_name |-> PyStr(visible_name)]

\* The objects of a provided list: dictionaries with or without the keys
\* name and visible_name.
ProvidedFiles ==
    { [name |-> PyStr("a.png")],
      [name |-> PyStr("a.png"), visible_name |-> PyStr("My file")],
      [name |-> PyStr("b.txt"), visible_name |-> PyStr("")],
      [name |-> PyStr("missing.png")],
      [name |-> PyInt(1)],
      [name |-> PyStr("b.txt"), visible_name |-> PyNone] }

HasKey(o, key) == key \in DOMAIN o

\* o.get('name') is a str, and visible_name is a str when it is given.
ValidProvidedFile(o) ==
    /\ HasKey(o, "name") /\ o.name.t = "str"
    /\ HasKey(o, "visible_name") => o.visible_name.t = "str"

\* file.get('visible_name') or user_file.original_name
VisibleName(file) ==
    IF HasKey(file, "visible_name") /\ file.visible_name # PyStr("")
    THEN file.visible_name.s
    ELSE UserFiles[file.name.s]

\* FileFieldType.prepare_value_for_db with the provided visible name ignored.
FilePrepareValueForDb_OriginalName(instance, value) ==
    IF value = PyNone
    THEN Returns(PyList(<<>>))
    ELSE IF value.t # "list"
    THEN Raises("ValidationError")
    ELSE IF \E k \in DOMAIN value.items : ~ValidProvidedFile(value.items[k])
    THEN Raises("ValidationError")
    ELSE IF \E k \in DOMAIN value.items : value.items[k].name.s \notin DOMAIN UserFiles
    THEN Raises("UserFileDoesNotExist")
    ELSE Returns(PyList([k \in DOMAIN value.items |->
                            Serialized(value.items[k].name.s,
                                       UserFiles[value.items[k].name.s])]))

\* FileFieldType.prepare_value_for_db.
FilePrepareValueForDb(instance, value) ==
    IF value = PyNone
    THEN Returns(PyList(<<>>))
    ELSE IF value.t # "list"
    THEN Raises("ValidationError")
    ELSE IF \E k \in DOMAIN value.items : ~ValidProvidedFile(value.items[k])
    THEN Raises("ValidationError")
    ELSE IF \E k \in DOMAIN value.items : value.items[k].name.s \notin DOMAIN UserFiles
    THEN Raises("UserFileDoesNotExist")
    ELSE Returns(PyList([k \in DOMAIN value.items |->
                            Serialized(value.items[k].name.s,
                                       VisibleName(value.items[k]))]))

\* The fields values are prepared for.
PrepFields ==
    {[type |-> "url"], [type |-> "email"], [type |-> "file"]}
    \cup {[type |-> "number", number_negative |-> n] : n \in BOOLEAN}
    \cup {[type |-> "date", date_include_time |-> i] : i \in BOOLEAN}
    \cup {[type |-> "single_select", id |-> 1]}

\* The lists of at most MaxFiles provided objects.
ProvidedLists ==
    UNION {[1..n -> ProvidedFiles] : n \in 0..MaxFiles}

\* The raw values a caller provides for a field.
RawValues(field) ==
    {PyNone} \cup
    CASE field.type = "url" ->
            {PyStr(""), PyStr("https://baserow.io"), PyStr("abc")}
      [] field.type = "email" ->
            {PyStr(""), PyStr("bram@baserow.io"), PyStr("abc")}
      [] field.type = "number" ->
            {PyInt(-5), PyInt(0), PyStr("0.49"), PyStr("-5"), PyDecimal(49),
             PyDecimal(-500)}
      [] field.type = "date" ->
            {PyStr(""), PyStr("abc"), PyStr("2020-01-15"),
             PyStr("2020-01-15T01:00:00+02:00"), PyDate(2020, 1, 15),
             PyDateTime(2020, 1, 15, 60, 120), PyDateTime(2020, 1, 15, 630, 0),
             PyInt(5)}
      [] field.type = "single_select" ->
            {PyInt(1), PyInt(3), PyInt(4), PySelectOption(2, 1),
             PySelectOption(3, 2), PyStr("1")}
      [] field.type = "file" ->
            {PyStr("a.png")} \cup {PyList(items) : items \in ProvidedLists}

\* field_type.prepare_value_for_db(field, value)
PrepareValueForDb(field, value) ==
    CASE field.type = "url" -> URLPrepareValueForDb(field, value)
      [] field.type = "email" -> EmailPrepareValueForDb(field, value)
      [] field.type = "number" -> NumberPrepareValue(field, value)
      [] field.type = "date" -> DatePrepareValueForDb(field, value)
      [] field.type = "single_select" -> SingleSelectPrepareValue(field, value)
      [] field.type = "file" -> FilePrepareValueForDb(field, value)

\* A caller prepares a raw value for a field.
PrepareRawValue(field, value) ==
    /\ prepField' = field
    /\ prepValue' = value
    /\ prepResult' = PrepareValueForDb(field, value)
    /\ prepLast' = "prepare"
    /\ UNCHANGED outsidePrep

\* The caller prepares the value it got back.
PrepareAgain ==
    /\ prepLast = "prepare"
    /\ prepResult.error = "ok"
    /\ prepValue' = prepResult.value
    /\ prepResult' = PrepareValueForDb(prepField, prepResult.value)
    /\ prepLast' = "prepare_again"
    /\ UNCHANGED <<prepField, outsidePrep>>

InitPrep ==
    /\ prepField = [type |-> "url"]
    /\ prepValue = PyNone
    /\ prepResult = Returns(PyStr(""))
    /\ prepLast = "init"

NextPrep ==
    \/ \E field \in PrepFields : \E value \in RawValues(field) :
            PrepareRawValue(field, value)
    \/ PrepareAgain

(***************************************************************************)
(*                  PROPERTIES OF THE COERCION COMPONENT                   *)
(***************************************************************************)

\* C16: prepare_value_for_db is idempotent. For every field type and every
\* raw value it accepts, preparing the prepared value again succeeds and
\* returns an equal value.
C16_PrepareIdempotent ==
    [][prepLast' = "prepare_again" => prepResult' = prepResult]_vars

\* C16 witness: a date given to a date field without time of day was prepared
\* and the date that came back was prepared again.
C16_Witness ==
    /\ prepLast = "prepare_again"
    /\ prepField = [type |-> "date", date_include_time |-> FALSE]
    /\ prepValue = PyDate(2020, 1, 14)
    /\ prepResult = Returns(PyDate(2020, 1, 14))

\* A provided list of well-formed objects was prepared for the file field.
FileListPrepared ==
    /\ prepLast' = "prepare"
    /\ prepField'.type = "file"
    /\ prepValue'.t = "list"
    /\ \A k \in DOMAIN prepValue'.items : ValidProvidedFile(prepValue'.items[k])

AllFilesExist(items) ==
    \A k \in DOMAIN items : items[k].name.s \in DOMAIN UserFiles

\* C17: file-list coercion returns a list of the length and in the order of
\* the provided list (duplicates kept); entry k is the stored record of the
\* file named by provided entry k with the provided visible name when that is
\* not empty and the file's original name otherwise. When a provided name has
\* no uploaded file the call fails with UserFileDoesNotExist and returns
\* nothing. A null input gives the empty list.
C17_FileListCoercion ==
    [][/\ FileListPrepared =>
            LET items == prepValue'.items IN
            IF AllFilesExist(items)
            THEN /\ prepResult'.error = "ok"
                 /\ prepResult'.value.t = "list"
                 /\ Len(prepResult'.value.items) = Len(items)
                 /\ \A k \in 1..Len(items) :
                       LET entry == prepResult'.value.items[k] IN
                          /\ entry.name = items[k].name
                          /\ entry.original_name = PyStr(UserFiles[items[k].name.s])
                          /\ entry.visible_name =
                                IF HasKey(items[k], "visible_name")
                                      /\ items[k].visible_name.s # ""
                                THEN items[k].visible_name
                                ELSE entry.original_name
            ELSE prepResult' = Raises("UserFileDoesNotExist")
       /\ (prepLast' = "prepare" /\ prepField'.type = "file" /\ prepValue' = PyNone)
             => prepResult' = Returns(PyList(<<>>))
      ]_vars

\* C17 witness: the list [a.png as "My file", a.png] was prepared and gave
\* two records of a.png, the first named "My file" and the second by the
\* file's original name.
C17_Witness ==
    /\ prepLast = "prepare"
    /\ prepField.type = "file"
    /\ prepValue = PyList(<<[name |-> PyStr("a.png"), visible_name |-> PyStr("My file")],
                            [name |-> PyStr("a.png")]>>)
    /\ prepResult = Returns(PyList(<<Serialized("a.png", "My file"),
                                     Serialized("a.png", "photo.png")>>))

(***************************************************************************)
(*        THE STARTUP COMPONENT: DatabaseConfig (database/config.py)       *)
(*                                                                         *)
(* ready() patches apps.register_model and then registers the field types  *)
(* one by one. Model classes are defined before and after that; once the   *)
(* application is ready, callers generate table models, each in its own    *)
(* steps, and the hooks look field types up in the registry.               *)
(***************************************************************************)

NumCallers == 2

Callers == 1..NumCallers

\* The field type classes in the order ready() registers them, once with
\* URLFieldType registered a second time.
ReadyFieldTypes_URLTwice ==
    <<"TextFieldType", "LongTextFieldType", "URLFieldType", "EmailFieldType",
      "NumberFieldType", "BooleanFieldType", "DateFieldType", "URLFieldType",
      "FileFieldType", "SingleSelectFieldType">>

\* The field type classes in the order ready() registers them.
ReadyFieldTypes ==
    <<"TextFieldType", "LongTextFieldType", "URLFieldType", "EmailFieldType",
      "NumberFieldType", "BooleanFieldType", "DateFieldType", "LinkRowFieldType",
      "FileFieldType", "SingleSelectFieldType">>

\* The attribute type of each field type class.
FieldTypeName(class) ==
    CASE class = "TextFieldType" -> "text"
      [] class = "LongTextFieldType" -> "long_text"
      [] class = "URLFieldType" -> "url"
      [] class = "EmailFieldType" -> "email"
      [] class = "NumberFieldType" -> "number"
      [] class = "BooleanFieldType" -> "boolean"
      [] class = "DateFieldType" -> "date"
      [] class = "LinkRowFieldType" -> "link_row"
      [] class = "FileFieldType" -> "file"
      [] class = "SingleSelectFieldType" -> "single_select"

\* The type names the specification lists.
TenFieldTypes ==
    {"text", "long_text", "url", "email", "number", "boolean", "date",
     "link_row", "file", "single_select"}

\* The steps of ready(): not started, register_model patched, and one step
\* for each registered field type.
ReadyPatched == 1
ReadyDone == ReadyPatched + Len(ReadyFieldTypes)

\* Registry.register: the registry afterwards and the error raised.
RegistryRegister(registered, type) ==
    IF type \in registered
    THEN [registry |-> registered, error |-> "DuplicateType"]
    ELSE [registry |-> registered \cup {type}, error |-> "ok"]

\* Model classes. auto_created is False or the model a through model was
\* created for; a generated table model has _generated_table_model.
NotAutoCreated == [name |-> "False", generated |-> FALSE, owner |-> 0]

Model(name, generated, owner, auto_created) ==
    [name |-> name, generated |-> generated, owner |-> owner,
     auto_created |-> auto_created]

ModelRef(model) ==
    [name |-> model.name, generated |-> model.generated, owner |-> model.owner]

\* The models that are not generated: two model classes of the application
\* and the through model of a many-to-many field of one of them.
OrdinaryModels ==
    { Model("Table", FALSE, 0, NotAutoCreated),
      Model("Group", FALSE, 0, NotAutoCreated),
      Model("Group_users", FALSE, 0, [name |-> "Group", generated |-> FALSE, owner |-> 0]) }

\* The table model a caller generates and the through model of its link-row
\* field.
GeneratedModel(caller) == Model("Table1Model", TRUE, caller, NotAutoCreated)

GeneratedThroughModel(caller) ==
    Model("Table1Model_field_1", FALSE, caller, ModelRef(GeneratedModel(caller)))

\* hasattr(x, '_generated_table_model')
HasGeneratedTableModel(x) == x.generated

\* The patched register_model that looks at the model only.
RegisterModel_ModelOnly(patched, models, model) ==
    IF patched
    THEN IF ~HasGeneratedTableModel(model)
         THEN models \cup {model}
         ELSE models
    ELSE models \cup {model}

\* apps.register_model: the original one, and, once ready() has run
\* prevent_generated_model_for_registering, the patched one.
RegisterModel(patched, models, model) ==
    IF patched
    THEN IF ~HasGeneratedTableModel(model)
              /\ ~HasGeneratedTableModel(model.auto_created)
         THEN models \cup {model}
         ELSE models
    ELSE models \cup {model}

\* ready(): prevent_generated_model_for_registering().
ReadyPatch ==
    /\ readyPc = 0
    /\ registerModelPatched' = TRUE
    /\ readyPc' = ReadyPatched
    /\ bootLast' = [op |-> "patch", found |-> TRUE]
    /\ UNCHANGED <<registry, registerError, appModels, genPc, outsideBoot>>

\* ready(): the next field_type_registry.register(...). An error ends ready().
ReadyRegister ==
    /\ readyPc >= ReadyPatched /\ readyPc < ReadyDone
    /\ registerError = "ok"
    /\ LET class == ReadyFieldTypes[readyPc - ReadyPatched + 1]
           result == RegistryRegister(registry, FieldTypeName(class))
       IN  /\ registry' = result.registry
           /\ registerError' = result.error
           /\ readyPc' = IF result.error = "ok" THEN readyPc + 1 ELSE readyPc
    /\ bootLast' = [op |-> "register", found |-> TRUE]
    /\ UNCHANGED <<registerModelPatched, appModels, genPc, outsideBoot>>

\* A model class that is not generated is defined: ModelBase calls
\* apps.register_model.
DefineModel(model) ==
    /\ model \notin appModels
    /\ appModels' = RegisterModel(registerModelPatched, appModels, model)
    /\ bootLast' = [op |-> "define", found |-> TRUE]
    /\ UNCHANGED <<registry, registerError, readyPc, registerModelPatched, genPc,
                   outsideBoot>>

\* Table.get_model of a caller: the table model's class is created.
GenerateModel(caller) ==
    /\ readyPc = ReadyDone
    /\ genPc[caller] = "idle"
    /\ appModels' = RegisterModel(registerModelPatched, appModels,
                                  GeneratedModel(caller))
    /\ genPc' = [genPc EXCEPT ![caller] = "model"]
    /\ bootLast' = [op |-> "generate", found |-> TRUE]
    /\ UNCHANGED <<registry, registerError, readyPc, registerModelPatched,
                   outsideBoot>>

\* LinkRowFieldType.after_model_generation of a caller: contribute_to_class
\* creates the through model of the many-to-many field.
AfterModelGeneration(caller) ==
    /\ genPc[caller] = "model"
    /\ appModels' = RegisterModel(registerModelPatched, appModels,
                                  GeneratedThroughModel(caller))
    /\ genPc' = [genPc EXCEPT ![caller] = "through"]
    /\ bootLast' = [op |-> "through", found |-> TRUE]
    /\ UNCHANGED <<registry, registerError, readyPc, registerModelPatched,
                   outsideBoot>>

\* The caller is done with its model.
DropModel(caller) ==
    /\ genPc[caller] = "through"
    /\ genPc' = [genPc EXCEPT ![caller] = "idle"]
    /\ bootLast' = [op |-> "drop", found |-> TRUE]
    /\ UNCHANGED <<registry, registerError, readyPc, registerModelPatched,
                   appModels, outsideBoot>>

\* A hook asks the registry for a field's type (field_type_registry
\* .get_by_model in the alter-column hooks).
RegistryGetByModel(type) ==
    /\ readyPc = ReadyDone
    /\ bootLast' = [op |-> "get", found |-> type \in registry]
    /\ UNCHANGED <<registry, registerError, readyPc, registerModelPatched,
                   appModels, genPc, outsideBoot>>

InitBoot ==
    /\ registry = {}
    /\ registerError = "ok"
    /\ readyPc = 0
    /\ registerModelPatched = FALSE
    /\ appModels = {}
    /\ genPc = [c \in Callers |-> "idle"]
    /\ bootLast = [op |-> "init", found |-> TRUE]

NextBoot ==
    \/ ReadyPatch
    \/ ReadyRegister
    \/ \E model \in OrdinaryModels : DefineModel(model)
    \/ \E caller \in Callers : GenerateModel(caller)
    \/ \E caller \in Callers : AfterModelGeneration(caller)
    \/ \E caller \in Callers : DropModel(caller)
    \/ \E type \in TenFieldTypes \cup {"unknown"} : RegistryGetByModel(type)

(***************************************************************************)
(*                  PROPERTIES OF THE STARTUP COMPONENT                    *)
(***************************************************************************)

\* The register calls ready() has made.
RegisterCallsMade == IF readyPc < ReadyPatched THEN 0 ELSE readyPc - ReadyPatched

\* C18: at startup each of the ten field types is registered under a type
\* name of its own exactly once: no register call fails with DuplicateType,
\* every call adds one name, and when ready() is done the registry holds the
\* ten names. After startup nothing changes the registry.
C18_RegisteredOnce ==
    /\ [](/\ registerError = "ok"
          /\ Cardinality(registry) = RegisterCallsMade
          /\ readyPc = ReadyDone => registry = TenFieldTypes)
    /\ [][readyPc = ReadyDone => registry' = registry]_vars

\* C18 witness: ready() is done, the ten types are registered, and a hook
\* looked a type up.
C18_Witness ==
    /\ readyPc = ReadyDone
    /\ Cardinality(registry) = 10
    /\ bootLast = [op |-> "get", found |-> TRUE]

\* A model that is generated, or the through model of one.
IsGenerated(model) ==
    HasGeneratedTableModel(model) \/ HasGeneratedTableModel(model.auto_created)

\* C19: a generated table model, and an auto-created through model of one, is
\* never in the application's model registry, however the callers that
\* generate models interleave; a model that is not generated is registered
\* when it is defined.
C19_GeneratedNeverRegistered ==
    /\ [](\A model \in appModels : ~IsGenerated(model))
    /\ [][bootLast'.op = "define" =>
            \E model \in OrdinaryModels \ appModels :
                appModels' = appModels \cup {model}]_vars

\* C19 witness: both callers have generated a model of the table and its
\* through model at the same time, and the registry holds the three models
\* that are not generated.
C19_Witness ==
    /\ \A c \in Callers : genPc[c] = "through"
    /\ appModels = OrdinaryModels

(***************************************************************************)
(*                           SORT COMPONENT                                *)
(***************************************************************************)

\* Bound of the sort component: the highest SelectOption id handed out.
MaxSortOptionId == 3

\* The value texts of the select options, in the order the database sorts
\* them.
SortedTexts == <<"Apple", "Banana", "Cherry">>

SortTexts == {SortedTexts[i] : i \in DOMAIN SortedTexts}

\* Where a value text stands in the order of the texts.
TextPosition(value) == CHOOSE i \in DOMAIN SortedTexts : SortedTexts[i] = value

\* The sequences that hold every element of S once.
Orderings(S) ==
    {s \in [1..Cardinality(S) -> S] : \A x \in S : \E i \in DOMAIN s : s[i] = x}

\* select_options ordered by primary key instead of by value.
OrderByValue_ByPk(options) ==
    {s \in Orderings(DOMAIN options) :
        \A i, j \in DOMAIN s : i < j => s[i] < s[j]}

\* field.select_options.all().order_by('value'): the primary keys in the
\* order of the values; the database may give options of equal value in
\* either order.
OrderByValue(options) ==
    {s \in Orderings(DOMAIN options) :
        \A i, j \in DOMAIN s :
            i < j => TextPosition(options[s[i]]) <= TextPosition(options[s[j]])}

\* list.reverse()
Reverse(s) == [i \in 1..Len(s) |-> s[Len(s) + 1 - i]]

\* SingleSelectFieldType.get_order: the options of the When clauses, in
\* order; the clause at position p (from 1) gives index p - 1.
SingleSelectGetOrder(select_options, order) ==
    LET options == <<None>> \o select_options
    IN  IF order = "DESC" THEN Reverse(options) ELSE options

\* The Case expression on a row: the index of the first When clause whose
\* option is the row's value (None: the row has no option), or no value.
NoRank == -1

CaseRank(whens, value) ==
    LET matches == {p \in DOMAIN whens : whens[p] = value}
    IN  IF matches = {}
        THEN NoRank
        ELSE (CHOOSE p \in matches : \A q \in matches : p <= q) - 1

SortAddOption(value) ==
    /\ sortNextId <= MaxSortOptionId
    /\ sortOptions' = (sortNextId :> value) @@ sortOptions
    /\ sortNextId' = sortNextId + 1
    /\ sortLast' = [op |-> "add_option", order |-> "ASC", whens |-> <<>>]
    /\ UNCHANGED outsideSort

SortDeleteOption(id) ==
    /\ id \in DOMAIN sortOptions
    /\ sortOptions' = [i \in DOMAIN sortOptions \ {id} |-> sortOptions[i]]
    /\ sortLast' = [op |-> "delete_option", order |-> "ASC", whens |-> <<>>]
    /\ UNCHANGED <<sortNextId, outsideSort>>

\* One call of get_order for a view sort of the given direction.
GetOrder(order) ==
    /\ \E select_options \in OrderByValue(sortOptions) :
         sortLast' = [op |-> "get_order", order |-> order,
                      whens |-> SingleSelectGetOrder(select_options, order)]
    /\ UNCHANGED <<sortOptions, sortNextId, outsideSort>>

InitSort ==
    /\ sortOptions = <<>>
    /\ sortNextId = 1
    /\ sortLast = [op |-> "init", order |-> "ASC", whens |-> <<>>]

NextSort ==
    \/ \E value \in SortTexts : SortAddOption(value)
    \/ \E id \in 1..MaxSortOptionId : SortDeleteOption(id)
    \/ \E order \in {"ASC", "DESC"} : GetOrder(order)

(***************************************************************************)
(*                    PROPERTIES OF THE SORT COMPONENT                     *)
(***************************************************************************)

\* The options whose value sorts before the value of option id, and those
\* whose value does not sort after it.
ValuesBefore(id) ==
    {j \in DOMAIN sortOptions :
        TextPosition(sortOptions[j]) < TextPosition(sortOptions[id])}

ValuesUpTo(id) ==
    {j \in DOMAIN sortOptions :
        TextPosition(sortOptions[j]) <= TextPosition(sortOptions[id])}

\* C22: get_order ranks rows by the order of their option's value text and
\* not by option id. Ascending, a row with no option ranks 0 and a row whose
\* option is the k-th in value order ranks k; descending the ranks are
\* reversed: the greatest value ranks 0 and a row with no option ranks last.
\* Every option of the field gets exactly one rank.
C22_OrderByValueText ==
    sortLast.op = "get_order" =>
        LET whens == sortLast.whens
            n == Cardinality(DOMAIN sortOptions)
            rank(x) == CaseRank(whens, x)
        IN  /\ Len(whens) = n + 1
            /\ \A id \in DOMAIN sortOptions :
                 Cardinality({p \in DOMAIN whens : whens[p] = id}) = 1
            /\ \A a, b \in DOMAIN sortOptions : a # b => rank(a) # rank(b)
            /\ sortLast.order = "ASC" =>
                 /\ rank(None) = 0
                 /\ \A id \in DOMAIN sortOptions :
                      /\ Cardinality(ValuesBefore(id)) + 1 <= rank(id)
                      /\ rank(id) <= Cardinality(ValuesUpTo(id))
            /\ sortLast.order = "DESC" =>
                 /\ rank(None) = n
                 /\ \A id \in DOMAIN sortOptions :
                      /\ n - Cardinality(ValuesUpTo(id)) <= rank(id)
                      /\ rank(id) <= n - 1 - Cardinality(ValuesBefore(id))

\* C22 witness: a descending get_order over three options whose value order
\* is not their id order.
C22_Witness ==
    /\ sortLast.op = "get_order" /\ sortLast.order = "DESC"
    /\ DOMAIN sortOptions = {1, 2, 3}
    /\ sortOptions[1] = "Cherry" /\ sortOptions[2] = "Apple"
    /\ sortOptions[3] = "Banana"
    /\ sortLast.whens = <<1, 3, 2, None>>

(***************************************************************************)
(*                        INVITATION COMPONENT                             *)
(***************************************************************************)

\* Bound of the invitation component: the highest GroupInvitation id handed
\* out.
MaxInvitationId == 2

\* The users; a user's username is their email address.
InvUsers == {"admin@baserow.io", "bram@baserow.io"}

InvGroups == {"Marketing", "Sales"}

\* The email addresses a caller gives, and normalize_email_address.
InvEmails == InvUsers \cup {"Bram@baserow.io"}

NormalizeEmailAddress(email) ==
    IF email = "Bram@baserow.io" THEN "bram@baserow.io" ELSE email

GROUP_USER_PERMISSION_ADMIN == "ADMIN"

GROUP_USER_PERMISSION_CHOICES == {"ADMIN", "MEMBER"}

\* The permissions a caller gives.
InvPermissions == GROUP_USER_PERMISSION_CHOICES \cup {"OWNER"}

\* settings.PUBLIC_WEB_FRONTEND_HOSTNAME, the base urls a caller gives and
\* urlparse(base_url).hostname.
PUBLIC_WEB_FRONTEND_HOSTNAME == "localhost"

BaseUrls == {"http://localhost:3000/invite", "http://baserow.evil/invite"}

Hostname(base_url) ==
    IF base_url = "http://localhost:3000/invite" THEN "localhost" ELSE "baserow.evil"

InvMessage == "Join us"

\* A GroupUser row and a GroupInvitation row.
GroupUser(permissions, order) == [permissions |-> permissions, order |-> order]

GroupInvitation(group, email, permissions, message, invited_by) ==
    [group |-> group, email |-> email, permissions |-> permissions,
     message |-> message, invited_by |-> invited_by]

\* GroupUser.get_last_order(user)
GroupUserGetLastOrder(group_users, user) ==
    LET orders == {group_users[k].order :
                       k \in {j \in DOMAIN group_users : j[1] = user}}
    IN  IF orders = {} THEN 1 ELSE Max(orders) + 1

\* group.has_user(user, permissions, raise_error=True)
GroupHasUser(group_users, group, user, permissions) ==
    IF <<user, group>> \notin DOMAIN group_users
    THEN "UserNotInGroupError"
    ELSE IF group_users[<<user, group>>].permissions # permissions
    THEN "UserInvalidGroupPermissionsError"
    ELSE "ok"

\* The URLSafeSerializer of get_group_invitation_signer: dumps signs an id,
\* loads raises BadSignature for a token it did not sign.
SignerDumps(id) == [id |-> id, signature |-> "group-invite"]

ForgedToken(id) == [id |-> id, signature |-> "forged"]

NoToken == [id |-> None, signature |-> "none"]

SignerLoads(token) ==
    IF token.signature = "group-invite"
    THEN [error |-> "ok", id |-> token.id]
    ELSE [error |-> "BadSignature", id |-> None]

\* CoreHandler.send_group_invitation_email
SendGroupInvitationEmail(st, id, base_url) ==
    IF Hostname(base_url) # PUBLIC_WEB_FRONTEND_HOSTNAME
    THEN Fail(st, "BaseURLHostnameNotAllowed")
    ELSE [st EXCEPT !.outbox = @ \cup {[to |-> st.invitations[id].email,
                                        invitation |-> id]}]

\* CoreHandler.create_group_invitation
CreateGroupInvitation(st, user, group, email_given, permissions, message, base_url) ==
    LET has_user == GroupHasUser(st.groupUsers, group, user, "ADMIN")
        email == NormalizeEmailAddress(email_given)
        \* GroupInvitation.objects.update_or_create(group=, email=, defaults=)
        existing == {i \in DOMAIN st.invitations :
                        /\ st.invitations[i].group = group
                        /\ st.invitations[i].email = email}
        id == IF existing = {} THEN st.nextId ELSE CHOOSE i \in existing : TRUE
        row == GroupInvitation(group, email, permissions, message, user)
        st1 == [st EXCEPT !.invitations =
                              [i \in DOMAIN @ \cup {id} |->
                                  IF i = id THEN row ELSE @[i]],
                          !.nextId = IF existing = {} THEN @ + 1 ELSE @]
    IN  IF has_user # "ok"
        THEN Fail(st, has_user)
        ELSE IF permissions \notin GROUP_USER_PERMISSION_CHOICES
        THEN Fail(st, "ValueError")
        ELSE IF \E k \in DOMAIN st.groupUsers : k[2] = group /\ k[1] = email
        THEN Fail(st, "GroupUserAlreadyExists")
        ELSE SendGroupInvitationEmail(st1, id, base_url)

\* CoreHandler.get_group_invitation_by_token: the id of the invitation.
GetGroupInvitationByToken(invitation_rows, token) ==
    LET loaded == SignerLoads(token) IN
    IF loaded.error # "ok"
    THEN loaded
    ELSE IF loaded.id \notin DOMAIN invitation_rows
    THEN [error |-> "GroupInvitationDoesNotExist", id |-> None]
    ELSE loaded

\* accept_group_invitation without the comparison of username and email.
AcceptGroupInvitation_AnyUser(st, user, id) ==
    LET invitation == st.invitations[id]
        key == <<user, invitation.group>>
        group_user == GroupUser(invitation.permissions,
                                GroupUserGetLastOrder(st.groupUsers, user))
    IN  [st EXCEPT !.groupUsers = [k \in DOMAIN @ \cup {key} |->
                                      IF k = key THEN group_user ELSE @[k]],
                   !.invitations = [i \in DOMAIN @ \ {id} |-> @[i]]]

\* CoreHandler.accept_group_invitation
AcceptGroupInvitation(st, user, id) ==
    LET invitation == st.invitations[id]
        key == <<user, invitation.group>>
        \* GroupUser.objects.update_or_create(user=, group=, defaults=)
        group_user == GroupUser(invitation.permissions,
                                GroupUserGetLastOrder(st.groupUsers, user))
    IN  IF user # invitation.email
        THEN Fail(st, "GroupInvitationEmailMismatch")
        ELSE [st EXCEPT !.groupUsers = [k \in DOMAIN @ \cup {key} |->
                                          IF k = key THEN group_user ELSE @[k]],
                        !.invitations = [i \in DOMAIN @ \ {id} |-> @[i]]]

\* The state a CoreHandler call works on.
InvState == [groupUsers |-> invGroupUsers, invitations |-> invitations,
             nextId |-> invNextId, outbox |-> invOutbox, error |-> "ok"]

\* CoreHandler opens no transaction: what a call wrote stays when it raises.
InvStore(st, op, user, token) ==
    /\ st.nextId <= MaxInvitationId + 1
    /\ invGroupUsers' = st.groupUsers
    /\ invitations' = st.invitations
    /\ invNextId' = st.nextId
    /\ invOutbox' = st.outbox
    /\ invLast' = [op |-> op, error |-> st.error, user |-> user, token |-> token]

CreateInvitation(user, group, email, permissions, message, base_url) ==
    /\ InvStore(CreateGroupInvitation(InvState, user, group, email, permissions,
                                      message, base_url),
                "create", user, NoToken)
    /\ UNCHANGED outsideInvitation

\* A user follows the link of an invitation email: the invitation is looked
\* up by its token and accepted.
AcceptInvitation(user, token) ==
    /\ LET found == GetGroupInvitationByToken(invitations, token)
       IN  InvStore(IF found.error # "ok"
                    THEN Fail(InvState, found.error)
                    ELSE AcceptGroupInvitation(InvState, user, found.id),
                    "accept", user, token)
    /\ UNCHANGED outsideInvitation

\* The user admin@baserow.io created both groups.
InitInvitation ==
    /\ invGroupUsers = [k \in {<<"admin@baserow.io", "Marketing">>,
                               <<"admin@baserow.io", "Sales">>} |->
                           GroupUser(GROUP_USER_PERMISSION_ADMIN,
                                     IF k[2] = "Marketing" THEN 1 ELSE 2)]
    /\ invitations = <<>>
    /\ invNextId = 1
    /\ invOutbox = {}
    /\ invLast = [op |-> "init", error |-> "ok", user |-> "admin@baserow.io",
                  token |-> NoToken]

InvTokens ==
    {SignerDumps(i) : i \in 1..(MaxInvitationId + 1)} \cup
    {ForgedToken(i) : i \in 1..MaxInvitationId}

NextInvitation ==
    \/ \E user \in InvUsers, group \in InvGroups, email \in InvEmails,
          permissions \in InvPermissions, base_url \in BaseUrls :
          CreateInvitation(user, group, email, permissions, InvMessage, base_url)
    \/ \E user \in InvUsers, token \in InvTokens : AcceptInvitation(user, token)

(***************************************************************************)
(*                 PROPERTIES OF THE INVITATION COMPONENT                  *)
(***************************************************************************)

\* An accept call left the memberships and the invitations as they were.
AcceptChangedNothing ==
    /\ invGroupUsers' = invGroupUsers
    /\ invitations' = invitations

\* What an accept call with the given user and token must do.
AcceptOutcome ==
    LET user == invLast'.user
        token == invLast'.token
        id == token.id
    IN  IF token.signature # "group-invite"
        THEN invLast'.error = "BadSignature" /\ AcceptChangedNothing
        ELSE IF id \notin DOMAIN invitations
        THEN invLast'.error = "GroupInvitationDoesNotExist" /\ AcceptChangedNothing
        ELSE IF user # invitations[id].email
        THEN invLast'.error = "GroupInvitationEmailMismatch" /\ AcceptChangedNothing
        ELSE /\ invLast'.error = "ok"
             /\ <<user, invitations[id].group>> \in DOMAIN invGroupUsers'
             /\ invGroupUsers'[<<user, invitations[id].group>>].permissions
                    = invitations[id].permissions
             /\ id \notin DOMAIN invitations'
             /\ GetGroupInvitationByToken(invitations', token).error
                    = "GroupInvitationDoesNotExist"

\* C23: a group invitation can be accepted only by the user it was addressed
\* to. Accepting with a username other than the invitation's email fails with
\* GroupInvitationEmailMismatch and leaves memberships and invitation as they
\* were; on success the user is a member of the invitation's group with the
\* invitation's permissions and the invitation is gone, its id is never used
\* again, so it cannot be accepted twice; a token with a bad signature fails
\* with BadSignature and a token of an id without invitation fails with
\* GroupInvitationDoesNotExist.
C23_AcceptOnlyByAddressee ==
    /\ [](\A id \in DOMAIN invitations : id < invNextId)
    /\ [][/\ invNextId' >= invNextId
          /\ invLast'.op = "accept" => AcceptOutcome]_vars

\* C23 witness: bram accepted the invitation to Sales with permissions
\* MEMBER and the invitation is gone.
C23_Witness ==
    /\ invLast.op = "accept" /\ invLast.error = "ok"
    /\ invLast.user = "bram@baserow.io"
    /\ <<"bram@baserow.io", "Sales">> \in DOMAIN invGroupUsers
    /\ invGroupUsers[<<"bram@baserow.io", "Sales">>].permissions = "MEMBER"
    /\ invLast.token.id \notin DOMAIN invitations

\* C29 (as claimed): create_group_invitation leaves the invitations as they
\* were when it fails: because the hostname of base_url is not the allowed
\* one, because the permissions are invalid, because the user is no admin of
\* the group or because the email belongs to a member of the group, no
\* GroupInvitation has been created or changed and no email has been sent.
C29_FailedCreateLeavesInvitations ==
    [][(invLast'.op = "create" /\ invLast'.error # "ok") =>
          /\ invitations' = invitations
          /\ invNextId' = invNextId
          /\ invOutbox' = invOutbox]_vars

(***************************************************************************)
(*                     MODEL GENERATION COMPONENT                          *)
(***************************************************************************)

\* Bounds of the model generation component: the tables, the links between
\* them, and the cap on the number of models generated for one table within
\* one top-level call.
NumGenTables == 3
MaxLinks == 4
MaxGenerations == 2

GenTables == 1..NumGenTables

\* The links <<a, b>> with a <= b of the link graph; each link is a pair of
\* link-row fields, one on a that links to b and one on b that links to a
\* (both on a when a = b).
GenLinks == {l \in GenTables \X GenTables : l[1] <= l[2]}

\* A link-row field of the graph.
LinkRowField(table, link_row_table, side) ==
    [table |-> table, link_row_table |-> link_row_table, side |-> side]

\* table.field_set of a table: its link-row fields.
FieldSet(graph, table) ==
    {LinkRowField(l[1], l[2], 1) : l \in {k \in graph : k[1] = table}} \cup
    {LinkRowField(l[2], l[1], 2) : l \in {k \in graph : k[2] = table}}

\* LinkRowFieldType.get_model_field: no model field.
LinkRowGetModelField(instance) == None

\* after_model_generation that does not store the current table's model.
RecordModel_Skip(manytomany_models, table) == manytomany_models

\* manytomany_models[instance.table.id] = model
RecordModel(manytomany_models, table) == manytomany_models \cup {table}

\* One get_model call in progress: the table, the fields whose
\* get_model_field gave a model field, and the fields whose
\* after_model_generation is still to be called.
Frame(graph, table) ==
    [table |-> table,
     columns |-> {f \in FieldSet(graph, table) : LinkRowGetModelField(f) # None},
     todo |-> FieldSet(graph, table)]

\* The top of the call stack, and the stack with another top.
Top(stack) == stack[Len(stack)]

WithTop(stack, frame) == [stack EXCEPT ![Len(stack)] = frame]

\* A link-row field and its related field are created, or deleted, while no
\* model is being generated.
GenCreateLink(link) ==
    /\ mgStack = <<>>
    /\ link \notin mgGraph
    /\ Cardinality(mgGraph) < MaxLinks
    /\ mgGraph' = mgGraph \cup {link}
    /\ mgCount' = [t \in GenTables |-> 0]
    /\ UNCHANGED <<mgStack, mgModels, outsideGeneration>>

GenDeleteLink(link) ==
    /\ mgStack = <<>>
    /\ link \in mgGraph
    /\ mgGraph' = mgGraph \ {link}
    /\ mgCount' = [t \in GenTables |-> 0]
    /\ UNCHANGED <<mgStack, mgModels, outsideGeneration>>

\* A caller calls table.get_model(): the model class is built from the
\* model fields, with a new manytomany_models.
TableGetModel(table) ==
    /\ mgStack = <<>>
    /\ mgStack' = <<Frame(mgGraph, table)>>
    /\ mgModels' = {}
    /\ mgCount' = [t \in GenTables |-> IF t = table THEN 1 ELSE 0]
    /\ UNCHANGED <<mgGraph, outsideGeneration>>

\* after_model_generation of one link-row field of the model on top of the
\* stack: the table's model is stored, and the related table's model is
\* taken from manytomany_models or generated by a nested get_model call.
LinkRowAfterModelGeneration ==
    /\ mgStack # <<>>
    /\ \E instance \in Top(mgStack).todo :
         LET manytomany_models == RecordModel(mgModels, instance.table)
             related == instance.link_row_table
             rest == WithTop(mgStack, [Top(mgStack) EXCEPT !.todo = @ \ {instance}])
         IN  /\ mgModels' = manytomany_models
             /\ IF related \in manytomany_models
                THEN /\ mgStack' = rest
                     /\ mgCount' = mgCount
                ELSE /\ mgCount[related] < MaxGenerations
                     /\ mgStack' = Append(rest, Frame(mgGraph, related))
                     /\ mgCount' = [mgCount EXCEPT ![related] = @ + 1]
    /\ UNCHANGED <<mgGraph, outsideGeneration>>

\* get_model returns the model once after_model_generation ran for all
\* fields; manytomany_models goes with the top-level call.
ReturnModel ==
    /\ mgStack # <<>>
    /\ Top(mgStack).todo = {}
    /\ mgStack' = SubSeq(mgStack, 1, Len(mgStack) - 1)
    /\ mgModels' = IF Len(mgStack) = 1 THEN {} ELSE mgModels
    /\ UNCHANGED <<mgGraph, mgCount, outsideGeneration>>

InitGeneration ==
    /\ mgGraph = {}
    /\ mgStack = <<>>
    /\ mgModels = {}
    /\ mgCount = [t \in GenTables |-> 0]

NextGeneration ==
    \/ \E link \in GenLinks : GenCreateLink(link)
    \/ \E link \in GenLinks : GenDeleteLink(link)
    \/ \E table \in GenTables : TableGetModel(table)
    \/ LinkRowAfterModelGeneration
    \/ ReturnModel

(***************************************************************************)
(*              PROPERTIES OF THE MODEL GENERATION COMPONENT               *)
(***************************************************************************)

\* The work a top-level get_model call has left at most: the frames on the
\* stack, the fields still to be handled in them, and for every table without
\* a model yet its frame and its fields.
RECURSIVE SumOver(_, _)
SumOver(S, stack) ==
    IF S = {} THEN 0
    ELSE LET i == CHOOSE x \in S : TRUE
         IN  Cardinality(stack[i].todo) + SumOver(S \ {i}, stack)

RECURSIVE FieldsOfTables(_, _)
FieldsOfTables(T, graph) ==
    IF T = {} THEN 0
    ELSE LET t == CHOOSE x \in T : TRUE
         IN  1 + Cardinality(FieldSet(graph, t)) + FieldsOfTables(T \ {t}, graph)

WorkLeft(stack, count, graph) ==
    Len(stack) + SumOver(DOMAIN stack, stack)
        + FieldsOfTables({t \in GenTables : count[t] = 0}, graph)

\* No table has two models, no table is on the call stack twice, and no
\* frame waits for a model field of a link-row field.
GeneratedOnce ==
    /\ \A t \in GenTables : mgCount[t] <= 1
    /\ \A i, j \in DOMAIN mgStack : mgStack[i].table = mgStack[j].table => i = j
    /\ \A i \in DOMAIN mgStack : mgStack[i].columns = {}

\* C26: model generation terminates for any link graph. get_model_field of a
\* link-row field gives no model field, and after_model_generation stores the
\* current table's model in manytomany_models before it generates the
\* related table's model; so for a table that links to itself, for two tables
\* that link to each other and for a longer cycle of tables, one top-level
\* get_model call generates the model of each table at most once, and every
\* step of the call leaves less work than there was.
C26_GenerationTerminates ==
    /\ []GeneratedOnce
    /\ [][mgStack # <<>> =>
            WorkLeft(mgStack', mgCount', mgGraph)
                < WorkLeft(mgStack, mgCount, mgGraph)]_vars

\* C26 witness: the call is done for three tables linked in a cycle, one of
\* which also links to itself, and each table has one model.
C26_Witness ==
    /\ mgStack = <<>>
    /\ {<<1, 1>>, <<1, 2>>, <<2, 3>>, <<1, 3>>} \subseteq mgGraph
    /\ \A t \in 1..3 : mgCount[t] = 1

(***************************************************************************)
(*                    SELECT CREATION COMPONENT                            *)
(***************************************************************************)

\* Bounds of the select creation component: the highest Field id and the
\* highest SelectOption id handed out.
MaxSelectFieldId == 3
MaxCreatedOptionId == 4

\* The creation values of a single-select field: the key select_options may
\* be missing; its value is a list of option values.
SelectValues(has, select_options) ==
    [has_select_options |-> has, select_options |-> select_options]

SelectPayloads == {<<>>, <<"Red">>, <<"Red", "Blue">>}

SelectCreationValues ==
    {SelectValues(FALSE, <<>>)} \cup {SelectValues(TRUE, p) : p \in SelectPayloads}

\* What before_create returns: the list, or Python's None when the key is
\* missing.
Payload(select_options) == [none |-> FALSE, items |-> select_options]

NoPayload == [none |-> TRUE, items |-> <<>>]

\* before_create that returns select_options and leaves it in the values.
SingleSelectBeforeCreate_KeepsKey(values) ==
    [before |-> IF values.has_select_options THEN Payload(values.select_options)
                ELSE NoPayload,
     values |-> values]

\* SingleSelectFieldType.before_create: what it returns, and the values it
\* leaves.
SingleSelectBeforeCreate(values) ==
    IF values.has_select_options
    THEN [before |-> Payload(values.select_options),
          values |-> SelectValues(FALSE, <<>>)]
    ELSE [before |-> NoPayload, values |-> values]

\* One write of an operation, in the order the writes are made.
FieldWrite(field) == [row |-> "Field", field |-> field]

OptionWrite(field) == [row |-> "SelectOption", field |-> field]

\* FieldHandler.update_field_select_options for a field without options:
\* one SelectOption per entry of the payload.
HandlerUpdateFieldSelectOptions(st, field, select_options) ==
    LET ids == [i \in DOMAIN select_options |-> st.nextOptionId + i - 1]
        rows == [o \in {ids[i] : i \in DOMAIN select_options} |->
                    [field |-> field,
                     value |-> select_options[CHOOSE i \in DOMAIN select_options :
                                                 ids[i] = o]]]
    IN  [st EXCEPT !.options = rows @@ @,
                   !.nextOptionId = @ + Len(select_options),
                   !.log = @ \o [i \in DOMAIN select_options |-> OptionWrite(field)],
                   !.calls = @ + 1]

\* SingleSelectFieldType.after_create
SingleSelectAfterCreate(st, field, before) ==
    IF before # NoPayload /\ Len(before.items) > 0
    THEN HandlerUpdateFieldSelectOptions(st, field, before.items)
    ELSE st

\* FieldHandler.create_field for type single_select: before_create, the
\* Field row from the values that are left, after_create.
HandlerCreateSelectField(st, values) ==
    LET prepared == SingleSelectBeforeCreate(values)
        id == st.nextFieldId
        st1 == [st EXCEPT !.fields = @ \cup {id},
                          !.nextFieldId = @ + 1,
                          !.log = Append(@, FieldWrite(id))]
    IN  IF prepared.values.has_select_options
        THEN Fail(st, "TypeError")
        ELSE SingleSelectAfterCreate(st1, id, prepared.before)

\* FieldHandler.delete_field for type single_select: the Field row goes, and
\* its SelectOption rows go with it (on_delete CASCADE).
HandlerDeleteSelectField(st, id) ==
    [st EXCEPT !.fields = @ \ {id},
               !.options = [o \in {x \in DOMAIN @ : @[x].field # id} |-> @[o]]]

\* The state an operation works on.
SelectCreationState ==
    [fields |-> scFields, options |-> scOptions, nextFieldId |-> scNextFieldId,
     nextOptionId |-> scNextOptionId, log |-> <<>>, calls |-> 0, error |-> "ok"]

\* An operation is one transaction.
SelectCommit(st, op, id, values) ==
    /\ st.nextFieldId <= MaxSelectFieldId + 1
    /\ st.nextOptionId <= MaxCreatedOptionId + 1
    /\ scFields' = IF st.error = "ok" THEN st.fields ELSE scFields
    /\ scOptions' = IF st.error = "ok" THEN st.options ELSE scOptions
    /\ scNextFieldId' = IF st.error = "ok" THEN st.nextFieldId ELSE scNextFieldId
    /\ scNextOptionId' = IF st.error = "ok" THEN st.nextOptionId
                         ELSE scNextOptionId
    /\ scLast' = [op |-> op, field |-> id, values |-> values, error |-> st.error,
                  log |-> st.log, calls |-> st.calls]

CreateSelectField(values) ==
    /\ SelectCommit(HandlerCreateSelectField(SelectCreationState, values),
                    "create", scNextFieldId, values)
    /\ UNCHANGED outsideCreation

DeleteSelectField(id) ==
    /\ id \in scFields
    /\ SelectCommit(HandlerDeleteSelectField(SelectCreationState, id),
                    "delete", id, SelectValues(FALSE, <<>>))
    /\ UNCHANGED outsideCreation

InitCreation ==
    /\ scFields = {}
    /\ scOptions = <<>>
    /\ scNextFieldId = 1
    /\ scNextOptionId = 1
    /\ scLast = [op |-> "init", field |-> None, values |-> SelectValues(FALSE, <<>>),
                 error |-> "ok", log |-> <<>>, calls |-> 0]

NextCreation ==
    \/ \E values \in SelectCreationValues : CreateSelectField(values)
    \/ \E id \in 1..MaxSelectFieldId : DeleteSelectField(id)

(***************************************************************************)
(*               PROPERTIES OF THE SELECT CREATION COMPONENT               *)
(***************************************************************************)

\* before_create takes select_options out of the values and returns it.
PayloadTakenOut ==
    \A values \in SelectCreationValues :
        LET prepared == SingleSelectBeforeCreate(values) IN
        /\ ~prepared.values.has_select_options
        /\ values.has_select_options =>
               prepared.before = Payload(values.select_options)
        /\ ~values.has_select_options => prepared.before = NoPayload

\* The writes of a creation: the Field row first, then one SelectOption per
\* entry of the payload, by one update_field_select_options call, and none
\* when the payload is missing or empty.
CreationWrites ==
    LET values == scLast'.values
        field == scLast'.field
        log == scLast'.log
        payload == IF values.has_select_options THEN values.select_options
                   ELSE <<>>
    IN  /\ scLast'.error = "ok"
        /\ log = <<FieldWrite(field)>> \o [i \in DOMAIN payload |-> OptionWrite(field)]
        /\ scLast'.calls = IF Len(payload) > 0 THEN 1 ELSE 0
        /\ field \in scFields' \ scFields
        /\ \A o \in DOMAIN scOptions : o \in DOMAIN scOptions'
                                          /\ scOptions'[o] = scOptions[o]
        /\ LET new == DOMAIN scOptions' \ DOMAIN scOptions
           IN  /\ Cardinality(new) = Len(payload)
               /\ \A o \in new : scOptions'[o].field = field
               /\ \A i \in DOMAIN payload :
                    \E o \in new : scOptions'[o].value = payload[i]

\* C27: the select_options of a creation are deferred. before_create takes
\* select_options out of the creation values and returns it, no SelectOption
\* is written before the Field row exists, after_create applies the payload
\* only when it is not empty, and after a field is deleted no SelectOption of
\* it remains.
C27_SelectOptionsDeferred ==
    /\ [](PayloadTakenOut /\ \A o \in DOMAIN scOptions : scOptions[o].field \in scFields)
    /\ [][scLast'.op = "create" => CreationWrites]_vars
    /\ [][scLast'.op = "delete" =>
            \A o \in DOMAIN scOptions' : scOptions'[o].field # scLast'.field]_vars

\* C27 witness: a field that was created with two options was deleted, and
\* the options of the other field are still there.
C27_Witness ==
    /\ scLast.op = "delete" /\ scLast.field = 1
    /\ scFields = {2}
    /\ scNextOptionId = 4
    /\ DOMAIN scOptions = {3}

(***************************************************************************)
(*                         SETTINGS COMPONENT                              *)
(*                                                                         *)
(* CoreHandler.get_settings and update_settings (core/handler.py), called  *)
(* by several requests at once.  Every query of the handler is one step;   *)
(* the handler opens no transaction and takes no lock, so the steps of     *)
(* different callers interleave freely.                                    *)
(***************************************************************************)

NumSettingsCallers == 2

SettingsCallers == 1..NumSettingsCallers

SettingsUsers == {[is_staff |-> TRUE], [is_staff |-> FALSE]}

SettingsKwargs == {[allow_new_signups |-> b] : b \in BOOLEAN}

\* settings_instance=None.
NoSettings == [id |-> None, allow_new_signups |-> TRUE]

\* The model instance of a stored row.
SettingsInstance(rows, id) ==
    [id |-> id, allow_new_signups |-> rows[id].allow_new_signups]

\* A caller outside the handler.
IdleCall ==
    [pc |-> "idle", op |-> "none", instance |-> NoSettings,
     kwargs |-> [allow_new_signups |-> TRUE], error |-> "ok"]

\* Settings.objects.all()[:1]: the queryset has no ordering, so the row it
\* yields is any of the stored ones.
SettingsFirstRows(rows) == DOMAIN rows

\* Settings.objects.create(): a new row with the defaults of the model.
SettingsCreate(rows, id) ==
    [i \in DOMAIN rows \cup {id} |->
        IF i = id THEN [allow_new_signups |-> TRUE] ELSE rows[i]]

\* for name, value in kwargs.items(): setattr(settings_instance, name, value)
SetAttrs(instance, kwargs) ==
    [instance EXCEPT !.allow_new_signups = kwargs.allow_new_signups]

\* settings_instance.save(): the row of the instance's id gets its values.
SettingsSave(rows, instance) ==
    [i \in DOMAIN rows \cup {instance.id} |->
        IF i = instance.id
        THEN [allow_new_signups |-> instance.allow_new_signups]
        ELSE rows[i]]

\* What a caller does with the instance get_settings gave it: get_settings
\* returns it, update_settings sets the attributes and goes on to save.
AfterGetSettings(call, instance) ==
    IF call.op = "get_settings"
    THEN [call EXCEPT !.pc = "done", !.instance = instance]
    ELSE [call EXCEPT !.pc = "save",
                      !.instance = SetAttrs(instance, call.kwargs)]

\* A request enters get_settings.
CallGetSettings(c) ==
    /\ setCalls[c].pc = "idle"
    /\ setCalls' = [setCalls EXCEPT ![c] =
                       [IdleCall EXCEPT !.pc = "query", !.op = "get_settings"]]
    /\ UNCHANGED <<settingsRows, settingsNextId, setReturned>>
    /\ UNCHANGED outsideSettings

\* update_settings up to its first query: the staff check, then either the
\* given instance or get_settings.
UpdateSettingsEnter(user, settings_instance, kwargs) ==
    LET call == [IdleCall EXCEPT !.op = "update_settings", !.kwargs = kwargs]
    IN  IF ~user.is_staff
        THEN [call EXCEPT !.pc = "done", !.error = "IsNotAdminError"]
        ELSE IF settings_instance = NoSettings
        THEN [call EXCEPT !.pc = "query"]
        ELSE [call EXCEPT !.pc = "save",
                          !.instance = SetAttrs(settings_instance, kwargs)]

\* A request enters update_settings, with or without an instance it
\* fetched before.
CallUpdateSettings(c) ==
    /\ setCalls[c].pc = "idle"
    /\ \E user \in SettingsUsers, kwargs \in SettingsKwargs,
          settings_instance \in
              {NoSettings} \cup
              {SettingsInstance(settingsRows, i) : i \in DOMAIN settingsRows} :
          setCalls' = [setCalls EXCEPT ![c] =
                          UpdateSettingsEnter(user, settings_instance, kwargs)]
    /\ UNCHANGED <<settingsRows, settingsNextId, setReturned>>
    /\ UNCHANGED outsideSettings

\* get_settings, the try branch: Settings.objects.all()[:1].get() either
\* yields a row or raises Settings.DoesNotExist.
GetSettingsQuery(c) ==
    /\ setCalls[c].pc = "query"
    /\ IF DOMAIN settingsRows = {}
       THEN setCalls' = [setCalls EXCEPT ![c].pc = "create"]
       ELSE \E i \in SettingsFirstRows(settingsRows) :
               setCalls' = [setCalls EXCEPT ![c] =
                   AfterGetSettings(@, SettingsInstance(settingsRows, i))]
    /\ UNCHANGED <<settingsRows, settingsNextId, setReturned>>
    /\ UNCHANGED outsideSettings

\* get_settings, the except branch: Settings.objects.create().
GetSettingsCreate(c) ==
    /\ setCalls[c].pc = "create"
    /\ settingsRows' = SettingsCreate(settingsRows, settingsNextId)
    /\ settingsNextId' = settingsNextId + 1
    /\ setCalls' = [setCalls EXCEPT ![c] =
           AfterGetSettings(@, SettingsInstance(settingsRows', settingsNextId))]
    /\ UNCHANGED setReturned
    /\ UNCHANGED outsideSettings

\* update_settings: settings_instance.save().
UpdateSettingsSave(c) ==
    /\ setCalls[c].pc = "save"
    /\ settingsRows' = SettingsSave(settingsRows, setCalls[c].instance)
    /\ setCalls' = [setCalls EXCEPT ![c].pc = "done"]
    /\ UNCHANGED <<settingsNextId, setReturned>>
    /\ UNCHANGED outsideSettings

\* The call returns or raises; setReturned keeps the ids of the rows that
\* get_settings calls have returned.
SettingsReturn(c) ==
    /\ setCalls[c].pc = "done"
    /\ setReturned' = IF setCalls[c].op = "get_settings"
                      THEN setReturned \cup {setCalls[c].instance.id}
                      ELSE setReturned
    /\ setCalls' = [setCalls EXCEPT ![c] = IdleCall]
    /\ UNCHANGED <<settingsRows, settingsNextId>>
    /\ UNCHANGED outsideSettings

\* A database without a Settings row and no request under way.
InitSettings ==
    /\ settingsRows = <<>>
    /\ settingsNextId = 1
    /\ setCalls = [c \in SettingsCallers |-> IdleCall]
    /\ setReturned = {}

NextSettings ==
    \E c \in SettingsCallers :
        \/ CallGetSettings(c)
        \/ CallUpdateSettings(c)
        \/ GetSettingsQuery(c)
        \/ GetSettingsCreate(c)
        \/ UpdateSettingsSave(c)
        \/ SettingsReturn(c)

(***************************************************************************)
(* Properties of the settings component                                    *)
(***************************************************************************)

\* At most one Settings row exists, and every get_settings call has
\* returned that row.
OneSettingsRow ==
    /\ Cardinality(DOMAIN settingsRows) <= 1
    /\ setReturned \subseteq DOMAIN settingsRows

\* The step is an update_settings call that raises IsNotAdminError.
RaisesIsNotAdmin(c) ==
    /\ setCalls[c].pc = "idle"
    /\ setCalls'[c].error = "IsNotAdminError"

\* C30 (as claimed): the admin settings are a singleton. After any
\* interleaving of concurrent get_settings and update_settings calls at most
\* one Settings row exists and every get_settings call returns that same
\* row; update_settings by a user who is not staff fails with
\* IsNotAdminError without creating or changing any Settings row.
C30_SettingsSingleton ==
    /\ []OneSettingsRow
    /\ [][\A c \in SettingsCallers :
              RaisesIsNotAdmin(c) => /\ settingsRows' = settingsRows
                                     /\ settingsNextId' = settingsNextId]_vars

(***************************************************************************)
(*                           SPECIFICATIONS                                *)
(***************************************************************************)

Init == InitLink /\ InitNumber /\ InitSelect /\ InitConv /\ InitPrep /\ InitBoot
        /\ InitSort
        /\ InitInvitation
        /\ InitGeneration
        /\ InitCreation
        /\ InitSettings

SpecLink == Init /\ [][NextLink]_vars

SpecNumber == Init /\ [][NextNumber]_vars

SpecSelect == Init /\ [][NextSelect]_vars

SpecSelectOptions == Init /\ [][NextSelectOptions]_vars

SpecConv == Init /\ [][NextConv]_vars

SpecPrep == Init /\ [][NextPrep]_vars

SpecBoot == Init /\ [][NextBoot]_vars

SpecSort == Init /\ [][NextSort]_vars

SpecInvitation == Init /\ [][NextInvitation]_vars

SpecGeneration == Init /\ [][NextGeneration]_vars

SpecCreation == Init /\ [][NextCreation]_vars

SpecSettings == Init /\ [][NextSettings]_vars

Next == NextLink \/ NextNumber \/ NextSelect \/ NextConv \/ NextPrep \/ NextBoot
        \/ NextSort
        \/ NextInvitation
        \/ NextGeneration
        \/ NextCreation
        \/ NextSettings

Spec == Init /\ [][Next]_vars

=============================================================================
